---------------------------- MODULE Spec2Model ----------------------------
(***************************************************************************)
(* ICEA computation core: executor packing (icea/packing.py), cost model   *)
(* (icea/cost_model.py), recommendation search (icea/recommend.py) and the *)
(* analyze pipeline that chains them (icea/api.py, _do_analyze).           *)
(*                                                                         *)
(* Numbers.  The code computes on Python floats.  The model computes on    *)
(* exact rationals held as integers:                                       *)
(*   - memory is counted in units of 1/MemScale GB;                        *)
(*   - a ratio (utilization, waste) is a pair [n, d] until the code rounds *)
(*     it with round(x, 4); a rounded ratio is an integer number of        *)
(*     1/RatioScale;                                                       *)
(*   - money is an integer number of cents once the code has rounded it    *)
(*     with round(x, 2).                                                   *)
(* round() is Python's: to the nearest, a tie to the even neighbour.       *)
(***************************************************************************)
EXTENDS Integers, Sequences, FiniteSets, TLC

(***************************************************************************)
(* Resolution of the rounded outputs (program constants).                  *)
(***************************************************************************)
RatioScale == 10000      \* round(x, 4): packing.py
CentScale == 100         \* round(x, 2): cost_model.py
ScoreScale == 100        \* efficiency_score = round(100 * (1 - waste))
PercentScale == 100      \* g = (growth_rate_pct / 100.0) / 12.0
MonthsPerYear == 12
MinutesPerHour == 60     \* daily_cost_raw = hourly_cluster_cost * (R / 60.0) * J
DaysPerMonth == 30       \* waste_cost_monthly = waste_cost_daily * 30

(***************************************************************************)
(* Field limits of the request types (icea/models.py).                     *)
(***************************************************************************)
EXECUTOR_CORES_LE == 32
EXECUTOR_MEMORY_GB_LE == 128

(***************************************************************************)
(* Candidate grid and guardrails (icea/recommend.py).                      *)
(***************************************************************************)
CORE_CANDIDATES == <<1, 2, 3, 4, 5, 6, 8>>
MIN_EXECUTOR_MEMORY_GB == 6
MAX_EXECUTORS_PER_NODE == 12

(***************************************************************************)
(* Bounds of the model.                                                    *)
(***************************************************************************)
MemScale == 4               \* memory units per GB (quarter GB)
MaxPackNodeCores == 5       \* compute_packing: node.cores in 1..5
MaxPackNodeMemoryGb == 8    \* compute_packing: node.memory_gb in 1..8 GB
MaxPackReserveCores == 1
MaxReserveMemory == 5       \* reserve_memory_gb in 0..5 units (0..1.25 GB)
MaxPackExecutorCores == 3
MaxPackExecutorMemory == 24 \* executor.memory_gb in 1 GB..24 units (6 GB)
BigNodeMemoryGb == 117      \* one large node, whole GB
PriceScale == 10            \* hourly_cost_usd is counted in 1/PriceScale cent
UtilScale == 3              \* utilization_factor is counted in 1/UtilScale
MaxNodeCount == 5           \* compute_cost: node.count in 1..5
MaxJobsPerDay == 4          \* compute_cost: jobs_per_day in 1..4
MaxFactor == 3              \* scaling factors k in 2..3
MaxNodeCores == 9           \* analyze: node.cores in 1..9
MaxNodeMemoryGb == 9        \* analyze: node.memory_gb in 1..9 GB
MaxReserveCores == 1
MaxReserveMemorySteps == 1  \* analyze: reserve_memory_gb of 0 or 1 unit
ExecutorMemoryStep == 6     \* analyze: executor.memory_gb in steps of 1.5 GB
MaxExecutorMemorySteps == 4
MaxExecutorCores == 2
WideNodeCores == 16         \* a node that can hold more than 12 executors
WideNodeMemoryGb == 96
OversizeNodeMemoryGb == 129 \* a node with more memory than an executor may have
AnalyzeHourlyCostUsd == 10
AnalyzeJobsPerDay == 30
MaxMonths == 4              \* compute_forecast: months in 1..4
MaxCalls == 2               \* compute_forecast is called twice on its arguments
MaxRiskNodeCount == 2       \* _risk_notes: node.count in 1..2
MaxServed == 3              \* analyze cache: requests received in all
_CACHE_TTL_SEC == 1         \* ICEA_ANALYZE_CACHE_TTL_SEC, 1 second here
_CACHE_MAX_SIZE == 1        \* ICEA_ANALYZE_CACHE_MAX, 1 entry here
MaxTokens == 1              \* pending reports: tokens issued
MaxReportRequests == 2      \* pending reports: requests with a token served
_EXPIRY_SECONDS == 1        \* store._EXPIRY_SECONDS, 1 second here
MaxDispatched == 4          \* rate limiter: requests dispatched
_RATE_LIMIT_REQUESTS == 2   \* security._RATE_LIMIT_REQUESTS, 2 requests here
_RATE_LIMIT_WINDOW_SEC == 2 \* security._RATE_LIMIT_WINDOW_SEC, 2 seconds here

VARIABLES
    pc,            \* where the caller is: "start", "packed", ...
    node,          \* NodeConfig
    executor,      \* ExecutorConfig
    assumptions,   \* Assumptions (reserves)
    workload,      \* WorkloadConfig
    utilization_factor,  \* Optional[float]: [some |-> FALSE] is None
    packing,       \* PackingResult returned by compute_packing, or Unset
    cost,          \* CostResult returned by compute_cost, or Unset
    search,        \* recommend's loop position, best so far and number of
                   \* candidates packed (compute_packing calls), or Unset
    recommendation, \* what recommend did: a config, none, or an exception
    risk,          \* the notes returned by _risk_notes, or Unset
    forecast,      \* compute_forecast: arguments, locals and returned lists
    clock,         \* time.time(), in whole seconds
    environ,       \* os.environ: the variables the service reads
    _analyze_cache, \* resilience._analyze_cache: key -> (response, created)
    _cache_order,  \* resilience._cache_order: keys in insertion order
    _store,        \* security._store: ip -> (count, window_start)
    _lock,         \* store._lock: the thread holding it, or 0
    pending_reports, \* table pending_reports: token -> row
    report_audit,  \* table report_audit: the rows, in insertion order
    threads,       \* worker threads: position and locals of each handler
    log,           \* records written through logging
    responses      \* the responses the service has sent, in order

serviceVars == <<clock, environ, _analyze_cache, _cache_order, _store, _lock,
                 pending_reports, report_audit, threads, log, responses>>

vars == <<pc, node, executor, assumptions, workload, utilization_factor,
          packing, cost, search, recommendation, risk, forecast,
          clock, environ, _analyze_cache, _cache_order, _store, _lock,
          pending_reports, report_audit, threads, log, responses>>

Unset == [tag |-> "unset"]

\* The service (web layer, caches, store) is not started.
ServiceUnset ==
    /\ clock = 0
    /\ environ = Unset
    /\ _analyze_cache = Unset
    /\ _cache_order = Unset
    /\ _store = Unset
    /\ _lock = 0
    /\ pending_reports = Unset
    /\ report_audit = Unset
    /\ threads = Unset
    /\ log = Unset
    /\ responses = Unset

(***************************************************************************)
(* Arithmetic helpers.                                                     *)
(***************************************************************************)
Min(a, b) == IF a <= b THEN a ELSE b
Max(a, b) == IF a >= b THEN a ELSE b
Abs(a) == IF a >= 0 THEN a ELSE -a

\* A rational n/d with d > 0.
Frac(n, d) == [n |-> n, d |-> d]
FracLeq(a, b) == a.n * b.d <= b.n * a.d
FracEq(a, b) == a.n * b.d = b.n * a.d
\* Python's max(a, b): b only when b > a.
FracMax(a, b) == IF FracLeq(b, a) THEN a ELSE b
\* 1 - x
OneMinus(x) == Frac(x.d - x.n, x.d)

\* Python's round(n/d) for d > 0: nearest integer, ties to even.
PyRound(n, d) ==
    LET q == n \div d
        r == n % d
    IN  IF 2 * r < d THEN q
        ELSE IF 2 * r > d THEN q + 1
        ELSE IF q % 2 = 0 THEN q ELSE q + 1

\* round(x, 4) of a ratio x, in units of 1/RatioScale.
Round4(x) == PyRound(x.n * RatioScale, x.d)

\* round(x, 2) of an amount x given in cents, in cents.
Round2(x) == PyRound(x.n, x.d)

RECURSIVE Gcd(_, _)
Gcd(a, b) == IF b = 0 THEN a ELSE Gcd(b, a % b)

\* a * b for a, b >= 0, in lowest terms.
FracMul(a, b) ==
    LET g1 == Gcd(a.n, b.d)
        g2 == Gcd(b.n, a.d)
    IN  Frac((a.n \div g1) * (b.n \div g2), (a.d \div g2) * (b.d \div g1))

\* Optional[float] values.
None == [some |-> FALSE, v |-> 0]
Some(v) == [some |-> TRUE, v |-> v]

(***************************************************************************)
(* icea/packing.py                                                         *)
(***************************************************************************)
\* Lines 22-23: capacity left after the reserves.
EffectiveCores(n, a) == n.cores - a.reserve_cores
EffectiveMem(n, a) == n.memory_gb - a.reserve_memory_gb

\* Mutant of DegenerateResult: an empty node reported as fully used.
DegenerateResult_NoWaste ==
    [executors_per_node |-> 0,
     cpu_utilization |-> 0,
     mem_utilization |-> 0,
     cpu_waste |-> 0,
     mem_waste |-> 0,
     waste |-> 0,
     efficiency_score |-> ScoreScale]

\* Lines 25-33: the result when nothing can be packed.
DegenerateResult ==
    [executors_per_node |-> 0,
     cpu_utilization |-> 0,
     mem_utilization |-> 0,
     cpu_waste |-> RatioScale,
     mem_waste |-> RatioScale,
     waste |-> RatioScale,
     efficiency_score |-> 0]

\* Mutant of ExecutorsFit: the larger of the two dimensions' counts.
ExecutorsFit_Max(effective_cores, effective_mem, c, m) ==
    LET e_cpu == IF c > 0 THEN effective_cores \div c ELSE 0
        e_mem == IF m > 0 THEN effective_mem \div m ELSE 0
    IN  Max(e_cpu, e_mem)

\* Lines 35-37: executors that fit on both dimensions.
ExecutorsFit(effective_cores, effective_mem, c, m) ==
    LET e_cpu == IF c > 0 THEN effective_cores \div c ELSE 0
        e_mem == IF m > 0 THEN effective_mem \div m ELSE 0
    IN  Min(e_cpu, e_mem)

\* Lines 39-40: used share of one dimension.
Utilization(executors_per_node, per_executor, effective) ==
    IF effective # 0 THEN Frac(executors_per_node * per_executor, effective)
    ELSE Frac(0, 1)

\* Mutant of WasteOf: the smaller waste.
WasteOf_Min(cpu_waste, mem_waste) ==
    IF FracLeq(cpu_waste, mem_waste) THEN cpu_waste ELSE mem_waste

\* Line 44: the waste that binds.
WasteOf(cpu_waste, mem_waste) == FracMax(cpu_waste, mem_waste)

\* Mutant of ScoreOf: the score from the waste already rounded to 4 decimals.
ScoreOf_FromRounded(waste) ==
    LET score == PyRound(ScoreScale * (RatioScale - Round4(waste)), RatioScale)
    IN  Min(ScoreScale, Max(0, score))

\* Lines 45 and 54: the score from the unrounded waste, clamped.
ScoreOf(waste) ==
    LET score == PyRound(ScoreScale * (waste.d - waste.n), waste.d)
    IN  Min(ScoreScale, Max(0, score))

compute_packing(n, e, a) ==
    LET effective_cores == EffectiveCores(n, a)
        effective_mem == EffectiveMem(n, a)
    IN  IF effective_cores <= 0 \/ effective_mem <= 0
        THEN DegenerateResult
        ELSE LET executors_per_node ==
                     ExecutorsFit(effective_cores, effective_mem,
                                  e.cores, e.memory_gb)
                 cpu_util == Utilization(executors_per_node, e.cores,
                                         effective_cores)
                 mem_util == Utilization(executors_per_node, e.memory_gb,
                                         effective_mem)
                 cpu_waste == OneMinus(cpu_util)
                 mem_waste == OneMinus(mem_util)
                 waste == WasteOf(cpu_waste, mem_waste)
             IN  [executors_per_node |-> executors_per_node,
                  cpu_utilization |-> Round4(cpu_util),
                  mem_utilization |-> Round4(mem_util),
                  cpu_waste |-> Round4(cpu_waste),
                  mem_waste |-> Round4(mem_waste),
                  waste |-> Round4(waste),
                  efficiency_score |-> ScoreOf(waste)]

(***************************************************************************)
(* icea/cost_model.py                                                      *)
(***************************************************************************)
\* Mutant of EffectiveUtilization: the upper limit of (0,1] is not checked.
EffectiveUtilization_NoUpperLimit(uf) ==
    IF uf.some /\ 0 < uf.v THEN Frac(uf.v, UtilScale) ELSE Frac(1, 1)

\* Line 22: u, the factor when it lies in (0,1], else 1.0.
EffectiveUtilization(uf) ==
    IF uf.some /\ 0 < uf.v /\ uf.v <= UtilScale
    THEN Frac(uf.v, UtilScale)
    ELSE Frac(1, 1)

\* Mutant of DailyCostRaw: whole hours only (R // 60).
DailyCostRaw_WholeHours(hourly_cluster_cost, R, J) ==
    Frac(hourly_cluster_cost.n * (R \div MinutesPerHour) * J,
         hourly_cluster_cost.d)

\* Line 25: hourly_cluster_cost * (R / 60.0) * J, in cents.
DailyCostRaw(hourly_cluster_cost, R, J) ==
    Frac(hourly_cluster_cost.n * R * J, hourly_cluster_cost.d * MinutesPerHour)

compute_cost(n, w, p, uf) ==
    LET P == Frac(n.hourly_cost_usd, PriceScale)
        N == n.count
        R == w.avg_runtime_minutes
        J == w.jobs_per_day
        waste == p.waste
        u == EffectiveUtilization(uf)
        hourly_cluster_cost == Frac(P.n * N, P.d)
        daily_cost_raw == DailyCostRaw(hourly_cluster_cost, R, J)
        daily_cost == Round2(Frac(daily_cost_raw.n * u.n, daily_cost_raw.d * u.d))
        waste_cost_daily == Round2(Frac(daily_cost * waste, RatioScale))
        waste_cost_monthly == Round2(Frac(waste_cost_daily * DaysPerMonth, 1))
    IN  [hourly_cluster_cost_usd |-> Round2(hourly_cluster_cost),
         daily_cost_usd |-> daily_cost,
         waste_cost_daily_usd |-> waste_cost_daily,
         waste_cost_monthly_usd |-> waste_cost_monthly]

(***************************************************************************)
(* icea/cost_model.py, compute_forecast.  Amounts are in cents; the        *)
(* running cur and rec are exact rationals, the entries are rounded.       *)
(***************************************************************************)
Reduce(x) == LET g == Gcd(Abs(x.n), x.d) IN Frac(x.n \div g, x.d \div g)

\* a - b, over the least common denominator.
FracSub(a, b) ==
    LET l == (a.d \div Gcd(a.d, b.d)) * b.d
    IN  Frac(a.n * (l \div a.d) - b.n * (l \div b.d), l)

\* Mutant of GrowthFactor: the annual rate applied every month.
GrowthFactor_Annual(growth_rate_pct) ==
    IF growth_rate_pct.some
    THEN Reduce(Frac(growth_rate_pct.v, PercentScale))
    ELSE Frac(0, 1)

\* Line 49: g, the monthly growth factor.
GrowthFactor(growth_rate_pct) ==
    IF growth_rate_pct.some
    THEN Reduce(Frac(growth_rate_pct.v, PercentScale * MonthsPerYear))
    ELSE Frac(0, 1)

\* 1 + g
OnePlus(g) == Reduce(Frac(g.d + g.n, g.d))

\* Mutant of ForecastEntry: savings from the rounded fields.
ForecastEntry_SavingsOfFields(m, cur, rec) ==
    [month |-> m,
     current_usd |-> Round2(cur),
     recommended_usd |-> Round2(rec),
     savings_usd |-> Round2(cur) - Round2(rec)]

\* Lines 55-60: the entry appended for month m.
ForecastEntry(m, cur, rec) ==
    [month |-> m,
     current_usd |-> Round2(cur),
     recommended_usd |-> Round2(rec),
     savings_usd |-> Round2(FracSub(cur, rec))]

(***************************************************************************)
(* icea/recommend.py                                                       *)
(***************************************************************************)
\* models.py, ExecutorConfig: the field limits pydantic enforces when the
\* search constructs a candidate.
ValidExecutorConfig(e) ==
    /\ e.cores >= 1 /\ e.cores <= EXECUTOR_CORES_LE
    /\ e.memory_gb >= MemScale
    /\ e.memory_gb <= EXECUTOR_MEMORY_GB_LE * MemScale

\* int(M) of a positive memory amount, in GB.
IntGb(M) == M \div MemScale

\* Mutant of PassesGuardrails: the maximum is not applied.
PassesGuardrails_NoMax(p) == ~(p.executors_per_node = 0)

\* Lines 52-55: a candidate is kept unless it packs 0 or more than
\* MAX_EXECUTORS_PER_NODE executors.
PassesGuardrails(p) ==
    /\ ~(p.executors_per_node = 0)
    /\ ~(p.executors_per_node > MAX_EXECUTORS_PER_NODE)

\* Mutant of ReplacesBest: a tie replaces the best (<= for <).
ReplacesBest_OnTie(p, best) == ~best.some \/ p.waste <= best.waste

\* Line 58: the running best is replaced only by strictly lower waste.
ReplacesBest(p, best) == ~best.some \/ p.waste < best.waste

\* Mutant of BestOf: savings clamped at zero.
BestOf_ClampedSavings(p, candidate_cost, c, m, current_cost) ==
    [some |-> TRUE,
     waste |-> p.waste,
     waste_monthly |-> candidate_cost.waste_cost_monthly_usd,
     score |-> p.efficiency_score,
     c |-> c,
     m |-> m,
     savings |-> Max(0, current_cost.waste_cost_monthly_usd
                            - candidate_cost.waste_cost_monthly_usd)]

\* Lines 59-67: the tuple kept for the best candidate.
BestOf(p, candidate_cost, c, m, current_cost) ==
    [some |-> TRUE,
     waste |-> p.waste,
     waste_monthly |-> candidate_cost.waste_cost_monthly_usd,
     score |-> p.efficiency_score,
     c |-> c,
     m |-> m,
     savings |-> current_cost.waste_cost_monthly_usd
                     - candidate_cost.waste_cost_monthly_usd]

NoBest == [some |-> FALSE]

\* Line 46.
MemMin == Max(MIN_EXECUTOR_MEMORY_GB, 1)

\* Mutant of RecommendedConfigOf: the waste is read back from the score.
RecommendedConfigOf_WasteFromScore(C, M, best) ==
    [kind |-> "config",
     executor_cores |-> best.c,
     executor_memory_gb |-> best.m * MemScale,
     executors_per_node |-> Min(C \div best.c, M \div (best.m * MemScale)),
     efficiency_score |-> best.score,
     waste |-> RatioScale - best.score * (RatioScale \div ScoreScale),
     waste_cost_monthly_usd |-> best.waste_monthly,
     savings_vs_current_monthly_usd |-> best.savings]

\* Lines 72-85: the RecommendedConfig built from the best tuple.
RecommendedConfigOf(C, M, best) ==
    [kind |-> "config",
     executor_cores |-> best.c,
     executor_memory_gb |-> best.m * MemScale,
     executors_per_node |-> Min(C \div best.c, M \div (best.m * MemScale)),
     efficiency_score |-> best.score,
     waste |-> best.waste,
     waste_cost_monthly_usd |-> best.waste_monthly,
     savings_vs_current_monthly_usd |-> best.savings]

RecommendNone == [kind |-> "none"]
RecommendRaised == [kind |-> "raised"]

(***************************************************************************)
(* icea/api.py, _risk_notes.  A note is represented by the name of the     *)
(* rule that appends it; its text is not modelled.                         *)
(***************************************************************************)
\* getattr(req.workload, field, None)
OptionalField(w, field) == IF field \in DOMAIN w THEN w[field] ELSE None

\* Lines 88-89.
LowExecutorMemoryNote(e) ==
    IF e.memory_gb < 6 * MemScale THEN <<"low_executor_memory">> ELSE <<>>

\* Lines 90-91.
HighExecutorsPerNodeNote(p) ==
    IF p.executors_per_node > 10 THEN <<"high_executors_per_node">> ELSE <<>>

\* Mutant of PartitionNote: no guard on executors_per_node.
PartitionNote_NoGuard(n, e, w, p) ==
    LET partition_count == OptionalField(w, "partition_count")
        total_cores == n.count * p.executors_per_node * e.cores
    IN  IF partition_count.some
        THEN IF partition_count.v > 4 * total_cores
             THEN <<"under_parallelized">>
             ELSE IF total_cores > 4 * partition_count.v
             THEN <<"underutilized_cores">>
             ELSE <<>>
        ELSE <<>>

\* Lines 93-106.
PartitionNote(n, e, w, p) ==
    LET partition_count == OptionalField(w, "partition_count")
        total_cores == n.count * p.executors_per_node * e.cores
    IN  IF partition_count.some /\ p.executors_per_node > 0
        THEN IF total_cores > 0
             THEN IF partition_count.v > 4 * total_cores
                  THEN <<"under_parallelized">>
                  ELSE IF total_cores > 4 * partition_count.v
                  THEN <<"underutilized_cores">>
                  ELSE <<>>
             ELSE <<>>
        ELSE <<>>

\* Lines 108-118: data_gb / total_executors > 0.5 * executor.memory_gb, with
\* data_gb in whole GB.
InputDataNote(n, e, w, p) ==
    LET data_gb == OptionalField(w, "input_data_gb")
        total_executors == n.count * p.executors_per_node
    IN  IF data_gb.some /\ data_gb.v > 0 /\ e.memory_gb > 0
        THEN IF total_executors > 0
                /\ data_gb.v * 2 * MemScale > e.memory_gb * total_executors
             THEN <<"input_data_spill">>
             ELSE <<>>
        ELSE <<>>

\* Lines 120-126: the factor is absent or >= 1.0.
ConcurrentJobsNote(w, uf) ==
    LET cj == OptionalField(w, "concurrent_jobs")
    IN  IF cj.some /\ cj.v > 1
        THEN IF ~uf.some \/ uf.v >= UtilScale
             THEN <<"concurrent_jobs">>
             ELSE <<>>
        ELSE <<>>

\* Lines 128-134: peak_mem >= 0.9 * executor.memory_gb, both in 1/MemScale GB.
PeakMemoryNote(e, w) ==
    LET peak_mem == OptionalField(w, "peak_executor_memory_gb")
    IN  IF peak_mem.some /\ peak_mem.v > 0 /\ e.memory_gb > 0
        THEN IF peak_mem.v * 10 >= 9 * e.memory_gb
             THEN <<"peak_memory">>
             ELSE <<>>
        ELSE <<>>

\* `x or 0` of an optional number.
OrZero(x) == IF x.some THEN x.v ELSE 0

\* Lines 136-145: shuffle_gb / total_executors > 0.25 * executor.memory_gb,
\* with shuffle_gb = (shuffle_r + shuffle_w) / 1024.0.
ShuffleNote(n, e, w, p) ==
    LET shuffle_mb == OrZero(OptionalField(w, "shuffle_read_mb"))
                          + OrZero(OptionalField(w, "shuffle_write_mb"))
        total_executors == n.count * p.executors_per_node
    IN  IF shuffle_mb > 0 /\ e.memory_gb > 0
        THEN IF total_executors > 0
                /\ shuffle_mb * 4 * MemScale
                       > 1024 * e.memory_gb * total_executors
             THEN <<"shuffle_pressure">>
             ELSE <<>>
        ELSE <<>>

\* Lines 147-152.
DataSkewNote(w) ==
    IF OptionalField(w, "data_skew") = Some("high")
    THEN <<"data_skew">> ELSE <<>>

\* Lines 154-159.
SpotNote(w) ==
    LET spot == OptionalField(w, "spot_pct")
    IN  IF spot.some /\ spot.v > 50 THEN <<"spot_share">> ELSE <<>>

\* Mutant of risk_notes: the spot note is appended before the skew note.
risk_notes_SpotFirst(n, e, w, uf, p) ==
    LowExecutorMemoryNote(e) \o HighExecutorsPerNodeNote(p)
        \o PartitionNote(n, e, w, p) \o InputDataNote(n, e, w, p)
        \o ConcurrentJobsNote(w, uf) \o PeakMemoryNote(e, w)
        \o ShuffleNote(n, e, w, p) \o SpotNote(w) \o DataSkewNote(w)

\* Lines 85-160: the notes in the order the rules append them.
risk_notes(n, e, w, uf, p) ==
    LowExecutorMemoryNote(e) \o HighExecutorsPerNodeNote(p)
        \o PartitionNote(n, e, w, p) \o InputDataNote(n, e, w, p)
        \o ConcurrentJobsNote(w, uf) \o PeakMemoryNote(e, w)
        \o ShuffleNote(n, e, w, p) \o DataSkewNote(w) \o SpotNote(w)

\* Mutant of ReachesInputDataDivision: no guard on total_executors.
ReachesInputDataDivision_NoGuard(n, e, w, p) ==
    LET data_gb == OptionalField(w, "input_data_gb")
    IN  data_gb.some /\ data_gb.v > 0 /\ e.memory_gb > 0

\* Lines 109-113: the conditions under which line 113 divides data_gb by
\* total_executors.
ReachesInputDataDivision(n, e, w, p) ==
    LET data_gb == OptionalField(w, "input_data_gb")
        total_executors == n.count * p.executors_per_node
    IN  /\ data_gb.some /\ data_gb.v > 0 /\ e.memory_gb > 0
        /\ total_executors > 0

\* Lines 139-141: the conditions under which line 141 divides shuffle_gb by
\* total_executors (the right operand of `and` is evaluated).
ReachesShuffleDivision(n, e, w, p) ==
    LET shuffle_mb == OrZero(OptionalField(w, "shuffle_read_mb"))
                          + OrZero(OptionalField(w, "shuffle_write_mb"))
        total_executors == n.count * p.executors_per_node
    IN  /\ shuffle_mb > 0 /\ e.memory_gb > 0
        /\ total_executors > 0

\* _risk_notes raises ZeroDivisionError: a division is reached with
\* total_executors = 0.
risk_notes_raises(n, e, w, p) ==
    /\ n.count * p.executors_per_node = 0
    /\ \/ ReachesInputDataDivision(n, e, w, p)
       \/ ReachesShuffleDivision(n, e, w, p)

(***************************************************************************)
(* icea/recommend.py as one call, for requests on small nodes: the loops   *)
(* of lines 42-67 from the loop position s.                                *)
(***************************************************************************)
RECURSIVE SearchFrom(_, _, _, _, _)
SearchFrom(n, w, a, current_cost, s) ==
    LET Cn == EffectiveCores(n, a)
        Mn == EffectiveMem(n, a)
        has_next == /\ s.ci <= Len(CORE_CANDIDATES)
                    /\ ~(CORE_CANDIDATES[s.ci] > Cn)
                    /\ s.m <= IntGb(Mn)
                    /\ ~(s.m * MemScale > Mn)
    IN  IF s.ci > Len(CORE_CANDIDATES)
        THEN IF ~s.best.some THEN RecommendNone
             ELSE RecommendedConfigOf(Cn, Mn, s.best)
        ELSE IF ~has_next
        THEN SearchFrom(n, w, a, current_cost,
                        [s EXCEPT !.ci = s.ci + 1, !.m = MemMin])
        ELSE LET c == CORE_CANDIDATES[s.ci]
                 exec_candidate == [cores |-> c, memory_gb |-> s.m * MemScale]
                 p == compute_packing(n, exec_candidate, a)
             IN  IF ~ValidExecutorConfig(exec_candidate)
                 THEN RecommendRaised
                 ELSE IF PassesGuardrails(p) /\ ReplacesBest(p, s.best)
                 THEN SearchFrom(n, w, a, current_cost,
                          [s EXCEPT !.m = s.m + 1,
                                    !.best = BestOf(p,
                                        compute_cost(n, w, p, None),
                                        c, s.m, current_cost)])
                 ELSE SearchFrom(n, w, a, current_cost,
                                 [s EXCEPT !.m = s.m + 1])

\* recommend.py, lines 21-85.
recommend(n, e, w, a, current_packing, current_cost) ==
    IF EffectiveCores(n, a) <= 0 \/ EffectiveMem(n, a) <= 0
    THEN RecommendNone
    ELSE SearchFrom(n, w, a, current_cost,
                    [ci |-> 1, m |-> MemMin, best |-> NoBest])

(***************************************************************************)
(* icea/api.py, _do_analyze, and icea/resilience.py, the analyze cache.    *)
(***************************************************************************)
\* Assumptions(): the defaults of models.py lines 64-65.
DefaultAssumptions == [reserve_cores |-> 0, reserve_memory_gb |-> 0]

\* api.py lines 169-188.  A ValidationError raised by recommend leaves
\* _do_analyze.
do_analyze(request) ==
    LET a == IF request.assumptions = None THEN DefaultAssumptions
             ELSE request.assumptions
        p == compute_packing(request.node, request.executor, a)
        c == compute_cost(request.node, request.workload, p,
                          request.utilization_factor)
        rec == recommend(request.node, request.executor, request.workload,
                         a, p, c)
        notes == risk_notes(request.node, request.executor, request.workload,
                            request.utilization_factor, p)
    IN  IF rec = RecommendRaised THEN [kind |-> "raised"]
        ELSE [kind |-> "response", packing |-> p, cost |-> c,
              recommendation |-> rec, risk_notes |-> notes]

\* Mutant of analyze_cache_key: the executor is left out of the key.
analyze_cache_key_NoExecutor(request_dict) ==
    <<request_dict.assumptions, request_dict.node,
      request_dict.utilization_factor, request_dict.workload>>

\* resilience.py lines 28-30: json.dumps(request_dict, sort_keys=True), the
\* values in the order of the sorted field names.  sha256 is taken to be
\* injective on these.
analyze_cache_key(request_dict) ==
    <<request_dict.assumptions, request_dict.executor, request_dict.node,
      request_dict.utilization_factor, request_dict.workload>>

\* list.remove(key): the first occurrence is removed.
RECURSIVE ListRemove(_, _)
ListRemove(list, key) ==
    IF list = <<>> THEN <<>>
    ELSE IF Head(list) = key THEN Tail(list)
    ELSE <<Head(list)>> \o ListRemove(Tail(list), key)

\* key in list
InList(key, list) == \E i \in 1..Len(list) : list[i] = key

\* dict.pop(key, None)
DictPop(dict, key) == [k \in DOMAIN dict \ {key} |-> dict[k]]

\* dict[key] = value
DictSet(dict, key, value) ==
    [k \in DOMAIN dict \cup {key} |-> IF k = key THEN value ELSE dict[k]]

\* Mutant of CacheIsFull: the size is never checked.
CacheIsFull_Never(cache, order) == FALSE

\* resilience.py line 54: the condition of the eviction loop.
CacheIsFull(cache, order) ==
    Cardinality(DOMAIN cache) >= _CACHE_MAX_SIZE /\ order # <<>>

(***************************************************************************)
(* Strings of environment variables and headers.  A string is its text     *)
(* without surrounding whitespace and in lower case, together with whether *)
(* it was written with surrounding whitespace and with upper-case letters; *)
(* str.strip() and str.lower() remove the one and the other.               *)
(***************************************************************************)
Str(text) == [text |-> text, padded |-> FALSE, upper |-> FALSE]
Padded(s) == [s EXCEPT !.padded = TRUE]
Upper(s) == [s EXCEPT !.upper = TRUE]
Strip(s) == [s EXCEPT !.padded = FALSE]
Lower(s) == [s EXCEPT !.upper = FALSE]

\* bool(x) of an optional string: None and "" are false.
Truthy(x) == x.some /\ x.v # Str("")

\* x or y
PyOr(x, y) == IF Truthy(x) THEN x ELSE y

\* os.environ.get(name)
EnvironGet(env, name) == env[name]

(***************************************************************************)
(* icea/auth.py                                                            *)
(***************************************************************************)
\* Lines 6-8.
get_required_api_key(env) ==
    LET keys == PyOr(EnvironGet(env, "ICEA_API_KEYS"), Some(Str("")))
        key == PyOr(EnvironGet(env, "ICEA_API_KEY"), Some(Strip(keys.v)))
    IN  IF Truthy(key) THEN key ELSE None

\* Lines 11-16.  An Authorization header is its scheme with the following
\* space and the rest of the value.
get_provided_key(x_api_key, authorization) ==
    IF Truthy(x_api_key) THEN Some(Strip(x_api_key.v))
    ELSE IF authorization.some /\ authorization.v.scheme = "Bearer "
    THEN Some(Strip(authorization.v.credentials))
    ELSE None

\* Lines 41-47.
is_demo_enabled(env) ==
    LET e == Lower(Strip(PyOr(PyOr(EnvironGet(env, "ICEA_ENV"),
                                   EnvironGet(env, "NODE_ENV")),
                              Some(Str(""))).v))
        v == Lower(Strip(PyOr(EnvironGet(env, "ICEA_DEMO"), Some(Str(""))).v))
    IN  IF e \in {Str("production"), Str("prod")}
        THEN FALSE
        ELSE v \in {Str("1"), Str("true"), Str("yes")}

\* Mutant of require_report_auth: with no key configured the request passes.
require_report_auth_OpenWithoutKey(env, x_api_key, authorization) ==
    LET required == get_required_api_key(env)
        provided == get_provided_key(x_api_key, authorization)
    IN  IF is_demo_enabled(env) THEN 200
        ELSE IF ~Truthy(required) THEN 200
        ELSE IF ~Truthy(provided) \/ provided # required THEN 401
        ELSE 200

\* Lines 50-71: 200 when the dependency returns, otherwise the status of the
\* HTTPException it raises.
require_report_auth(env, x_api_key, authorization) ==
    LET required == get_required_api_key(env)
        provided == get_provided_key(x_api_key, authorization)
    IN  IF is_demo_enabled(env) THEN 200
        ELSE IF ~Truthy(required) THEN 401
        ELSE IF ~Truthy(provided) \/ provided # required THEN 401
        ELSE 200

(***************************************************************************)
(* icea/security.py, check_demo_in_production                              *)
(***************************************************************************)
\* Lines 48-59: whether the critical record is logged and whether
\* RuntimeError is raised.
check_demo_in_production(env) ==
    LET e == Lower(PyOr(PyOr(EnvironGet(env, "ICEA_ENV"),
                             EnvironGet(env, "NODE_ENV")),
                        Some(Str(""))).v)
        fail == IF EnvironGet(env, "ICEA_DEMO_FAIL_IN_PROD").some
                THEN EnvironGet(env, "ICEA_DEMO_FAIL_IN_PROD").v
                ELSE Str("")
    IN  IF ~is_demo_enabled(env)
        THEN [critical |-> FALSE, raised |-> FALSE]
        ELSE IF e = Str("production") \/ e = Str("prod")
        THEN [critical |-> TRUE, raised |-> Strip(fail) = Str("1")]
        ELSE [critical |-> FALSE, raised |-> FALSE]

(***************************************************************************)
(* icea/store.py: the tables pending_reports and report_audit.  A table is *)
(* a function from its key to the row.                                     *)
(***************************************************************************)
\* json.dumps and json.loads of a request dict.
JsonDumps(request_dict) == [json |-> request_dict]
JsonLoads(text) == text.json

\* time.time() - created > _EXPIRY_SECONDS
Expired(created, now) == now - created > _EXPIRY_SECONDS

\* Line 114: DELETE FROM pending_reports WHERE created_at < now - expiry.
PruneExpired(table, now) ==
    [token \in {k \in DOMAIN table :
                    ~(table[k].created_at < now - _EXPIRY_SECONDS)}
        |-> table[token]]

\* Lines 110-114: the row is inserted, then expired rows are deleted.
create_pending_report(table, token, request_dict, now) ==
    PruneExpired(DictSet(table, token,
                         [request_json |-> JsonDumps(request_dict),
                          created_at |-> now]),
                 now)

\* Lines 127-130 and 149-152: SELECT ... WHERE token = ?, fetchone().
SelectRow(table, token) ==
    IF token \in DOMAIN table THEN Some(table[token]) ELSE None

\* Mutant of get_pending_report: the row is deleted when it is returned.
get_pending_report_Consuming(table, token, now) ==
    LET row == SelectRow(table, token)
    IN  IF ~row.some THEN [result |-> None, table |-> table]
        ELSE [result |-> IF Expired(row.v.created_at, now) THEN None
                         ELSE Some(JsonLoads(row.v.request_json)),
              table |-> DictPop(table, token)]

\* Lines 127-138: what get_pending_report returns and the table it leaves.
get_pending_report(table, token, now) ==
    LET row == SelectRow(table, token)
    IN  IF ~row.some THEN [result |-> None, table |-> table]
        ELSE IF Expired(row.v.created_at, now)
        THEN [result |-> None, table |-> DictPop(table, token)]
        ELSE [result |-> Some(JsonLoads(row.v.request_json)),
              table |-> table]

\* Lines 153-162: what consume_pending_report returns for the row it
\* selected, and the table it leaves.
consume_selected_row(table, token, row, now) ==
    IF ~row.some THEN [result |-> None, table |-> table]
    ELSE IF Expired(row.v.created_at, now)
    THEN [result |-> None, table |-> DictPop(table, token)]
    ELSE [result |-> Some(JsonLoads(row.v.request_json)),
          table |-> DictPop(table, token)]

\* Mutant of LockIsFree: the lock is never waited for.
LockIsFree_Always(lock) == TRUE

\* `with _lock:` is entered when no thread holds the lock.
LockIsFree(lock) == lock = 0

(***************************************************************************)
(* icea/security.py: RateLimitMiddleware.  A path is the sequence of its   *)
(* segments after the leading slash: "/" is <<"">>, "/v1/health" is        *)
(* <<"v1", "health">>.                                                     *)
(***************************************************************************)
\* Line 29: path == "/v1/health" or path == "/health".
IsHealthPath(path) == path = <<"v1", "health">> \/ path = <<"health">>

\* Line 31: path.startswith("/v1/") or path == "/".
IsRateLimitedPath(path) ==
    \/ Len(path) >= 2 /\ path[1] = "v1"
    \/ path = <<"">>

\* Line 16 and line 34: _store is a defaultdict, a missing ip reads (0, 0.0).
StoreRead(store, ip) ==
    IF ip \in DOMAIN store THEN store[ip] ELSE [count |-> 0, start |-> 0]

\* Lines 27-45: the _store dispatch leaves, and the answer: 429 with a
\* Retry-After header, or what call_next returns (status 200 here).
dispatch(store, ip, path, now) ==
    IF IsHealthPath(path)
    THEN [store |-> store, status |-> 200, retry_after |-> None]
    ELSE IF IsRateLimitedPath(path)
    THEN LET entry == StoreRead(store, ip)
         IN  IF now - entry.start >= _RATE_LIMIT_WINDOW_SEC
             THEN [store |-> DictSet(store, ip, [count |-> 1, start |-> now]),
                   status |-> 200, retry_after |-> None]
             ELSE IF entry.count >= _RATE_LIMIT_REQUESTS
             THEN [store |-> DictSet(store, ip, entry),
                   status |-> 429,
                   retry_after |-> Some(_RATE_LIMIT_WINDOW_SEC)]
             ELSE [store |-> DictSet(store, ip,
                                     [count |-> entry.count + 1,
                                      start |-> entry.start]),
                   status |-> 200, retry_after |-> None]
    ELSE [store |-> store, status |-> 200, retry_after |-> None]

(***************************************************************************)
(* Specification SpecPacking: a caller builds valid NodeConfig,            *)
(* ExecutorConfig and Assumptions values and calls compute_packing.        *)
(***************************************************************************)
PackNodeMemory ==
    {g * MemScale : g \in 1..MaxPackNodeMemoryGb} \cup {BigNodeMemoryGb * MemScale}
PackExecutorMemory == MemScale..MaxPackExecutorMemory

InitPacking ==
    /\ ServiceUnset
    /\ pc = "start"
    /\ node \in [cores : 1..MaxPackNodeCores, memory_gb : PackNodeMemory,
                 hourly_cost_usd : {CentScale * PriceScale}, count : {1}]
    /\ executor \in [cores : 1..MaxPackExecutorCores,
                     memory_gb : PackExecutorMemory]
    /\ assumptions \in [reserve_cores : 0..MaxPackReserveCores,
                        reserve_memory_gb : 0..MaxReserveMemory]
    /\ workload = Unset
    /\ utilization_factor = None
    /\ packing = Unset
    /\ cost = Unset
    /\ search = Unset
    /\ recommendation = Unset
    /\ risk = Unset
    /\ forecast = Unset

CallComputePacking ==
    /\ UNCHANGED serviceVars
    /\ pc = "start"
    /\ packing' = compute_packing(node, executor, assumptions)
    /\ pc' = "packed"
    /\ UNCHANGED <<node, executor, assumptions, workload, utilization_factor,
                   cost, search, recommendation>>
    /\ UNCHANGED <<risk, forecast>>

NextPacking == CallComputePacking

SpecPacking == InitPacking /\ [][NextPacking]_vars

(***************************************************************************)
(* Specification SpecCost: a caller builds a node, a workload and a        *)
(* PackingResult with a given waste (as tests/test_cost_model.py does) and *)
(* calls compute_cost, with or without a utilization factor.               *)
(***************************************************************************)
CostHourlyCosts == {0, 104, 332, 1000, 2000}     \* $0, $0.104, $0.332, $1, $2
CostRuntimes == {7, 20, 30, 60}                  \* minutes
CostWastes == {0, 1, 3333, 6667, RatioScale}     \* in 1/RatioScale
CostUtilizations == {None} \cup {Some(v) : v \in (-1)..(UtilScale + 1)}

PackingWithWaste(w) ==
    [executors_per_node |-> 1,
     cpu_utilization |-> RatioScale - w,
     mem_utilization |-> RatioScale - w,
     cpu_waste |-> w,
     mem_waste |-> w,
     waste |-> w,
     efficiency_score |-> PyRound(ScoreScale * (RatioScale - w), RatioScale)]

InitCost ==
    /\ ServiceUnset
    /\ pc = "start"
    /\ node \in [cores : {1}, memory_gb : {MemScale},
                 hourly_cost_usd : CostHourlyCosts, count : 1..MaxNodeCount]
    /\ executor = Unset
    /\ assumptions = Unset
    /\ workload \in [avg_runtime_minutes : CostRuntimes,
                     jobs_per_day : 1..MaxJobsPerDay]
    /\ utilization_factor \in CostUtilizations
    /\ packing \in {PackingWithWaste(w) : w \in CostWastes}
    /\ cost = Unset
    /\ search = Unset
    /\ recommendation = Unset
    /\ risk = Unset
    /\ forecast = Unset

CallComputeCost ==
    /\ UNCHANGED serviceVars
    /\ pc = "start"
    /\ cost' = compute_cost(node, workload, packing, utilization_factor)
    /\ pc' = "costed"
    /\ UNCHANGED <<node, executor, assumptions, workload, utilization_factor,
                   packing, search, recommendation>>
    /\ UNCHANGED <<risk, forecast>>

NextCost == CallComputeCost

SpecCost == InitCost /\ [][NextCost]_vars

(***************************************************************************)
(* Specification SpecAnalyze: _do_analyze (icea/api.py) on a validated     *)
(* AnalyzeRequest: compute_packing, compute_cost under the request's       *)
(* utilization factor, then recommend.  An exception of recommend ends the *)
(* request.                                                                *)
(***************************************************************************)
AnalyzeNodes ==
    [cores : 1..MaxNodeCores,
     memory_gb : {g * MemScale : g \in 1..MaxNodeMemoryGb}]
    \cup {[cores |-> WideNodeCores, memory_gb |-> WideNodeMemoryGb * MemScale],
          [cores |-> MaxNodeCores, memory_gb |-> OversizeNodeMemoryGb * MemScale]}

AnalyzeReserves(shape) ==
    IF shape.cores <= MaxNodeCores /\ shape.memory_gb <= MaxNodeMemoryGb * MemScale
    THEN [reserve_cores : 0..MaxReserveCores,
          reserve_memory_gb : 0..MaxReserveMemorySteps]
    ELSE {[reserve_cores |-> 0, reserve_memory_gb |-> 0]}

AnalyzeExecutors ==
    [cores : 1..MaxExecutorCores,
     memory_gb : {k * ExecutorMemoryStep : k \in 1..MaxExecutorMemorySteps}]

AnalyzeUtilizations == {None} \cup {Some(v) : v \in 1..UtilScale}

InitAnalyze ==
    /\ ServiceUnset
    /\ pc = "start"
    /\ \E shape \in AnalyzeNodes :
          /\ node = [cores |-> shape.cores, memory_gb |-> shape.memory_gb,
                     hourly_cost_usd |->
                         AnalyzeHourlyCostUsd * CentScale * PriceScale,
                     count |-> 1]
          /\ assumptions \in AnalyzeReserves(shape)
    /\ executor \in AnalyzeExecutors
    /\ workload = [avg_runtime_minutes |-> MinutesPerHour,
                   jobs_per_day |-> AnalyzeJobsPerDay]
    /\ utilization_factor \in AnalyzeUtilizations
    /\ packing = Unset
    /\ cost = Unset
    /\ search = Unset
    /\ recommendation = Unset
    /\ risk = Unset
    /\ forecast = Unset

AnalyzePacking ==
    /\ UNCHANGED serviceVars
    /\ pc = "start"
    /\ packing' = compute_packing(node, executor, assumptions)
    /\ pc' = "packed"
    /\ UNCHANGED <<node, executor, assumptions, workload, utilization_factor,
                   cost, search, recommendation>>
    /\ UNCHANGED <<risk, forecast>>

AnalyzeCost ==
    /\ UNCHANGED serviceVars
    /\ pc = "packed"
    /\ cost' = compute_cost(node, workload, packing, utilization_factor)
    /\ pc' = "costed"
    /\ UNCHANGED <<node, executor, assumptions, workload, utilization_factor,
                   packing, search, recommendation>>
    /\ UNCHANGED <<risk, forecast>>

\* recommend, lines 35-36: the effective capacity of the request's node.
C == EffectiveCores(node, assumptions)
M == EffectiveMem(node, assumptions)

\* recommend, lines 35-40: no search when no capacity is left.
RecommendEnter ==
    /\ UNCHANGED serviceVars
    /\ pc = "costed"
    /\ IF C <= 0 \/ M <= 0
       THEN /\ recommendation' = RecommendNone
            /\ pc' = "recommended"
            /\ UNCHANGED search
       ELSE /\ search' = [ci |-> 1, m |-> MemMin, best |-> NoBest,
                           evaluated |-> 0]
            /\ pc' = "searching"
            /\ UNCHANGED recommendation
    /\ UNCHANGED <<node, executor, assumptions, workload, utilization_factor,
                   packing, cost>>
    /\ UNCHANGED <<risk, forecast>>

\* The memory loop of the current core candidate has a next value.
MemoryLoopHasNext ==
    /\ search.ci <= Len(CORE_CANDIDATES)
    /\ ~(CORE_CANDIDATES[search.ci] > C)
    /\ search.m <= IntGb(M)
    /\ ~(search.m * MemScale > M)

\* recommend, lines 50-67: one candidate.  Constructing it may raise
\* pydantic's ValidationError, which leaves recommend and _do_analyze.
SearchCandidate ==
    /\ UNCHANGED serviceVars
    /\ pc = "searching"
    /\ MemoryLoopHasNext
    /\ LET c == CORE_CANDIDATES[search.ci]
           m == search.m
           exec_candidate == [cores |-> c, memory_gb |-> m * MemScale]
           p == compute_packing(node, exec_candidate, assumptions)
       IN  IF ~ValidExecutorConfig(exec_candidate)
           THEN /\ recommendation' = RecommendRaised
                /\ pc' = "failed"
                /\ UNCHANGED search
           ELSE /\ search' =
                       IF PassesGuardrails(p) /\ ReplacesBest(p, search.best)
                       THEN [ci |-> search.ci, m |-> m + 1,
                             best |-> BestOf(p, compute_cost(node, workload,
                                                             p, None),
                                             c, m, cost),
                             evaluated |-> search.evaluated + 1]
                       ELSE [search EXCEPT !.m = m + 1,
                                           !.evaluated = search.evaluated + 1]
                /\ UNCHANGED <<pc, recommendation>>
    /\ UNCHANGED <<node, executor, assumptions, workload, utilization_factor,
                   packing, cost>>
    /\ UNCHANGED <<risk, forecast>>

\* recommend, lines 42-49: the next core candidate, when this one exceeds C
\* or its memory loop has ended.
SearchNextCores ==
    /\ UNCHANGED serviceVars
    /\ pc = "searching"
    /\ search.ci <= Len(CORE_CANDIDATES)
    /\ ~MemoryLoopHasNext
    /\ search' = [search EXCEPT !.ci = search.ci + 1, !.m = MemMin]
    /\ UNCHANGED <<pc, node, executor, assumptions, workload,
                   utilization_factor, packing, cost, recommendation>>
    /\ UNCHANGED <<risk, forecast>>

\* recommend, lines 69-85: none, or the best candidate.
RecommendReturn ==
    /\ UNCHANGED serviceVars
    /\ pc = "searching"
    /\ search.ci > Len(CORE_CANDIDATES)
    /\ recommendation' =
           IF ~search.best.some THEN RecommendNone
           ELSE RecommendedConfigOf(C, M, search.best)
    /\ pc' = "recommended"
    /\ UNCHANGED <<node, executor, assumptions, workload, utilization_factor,
                   packing, cost, search>>
    /\ UNCHANGED <<risk, forecast>>

\* _do_analyze, lines 186-187: the risk notes, then the response.
AnalyzeRiskNotes ==
    /\ UNCHANGED serviceVars
    /\ pc = "recommended"
    /\ risk' = risk_notes(node, executor, workload, utilization_factor,
                          packing)
    /\ pc' = "done"
    /\ UNCHANGED <<node, executor, assumptions, workload, utilization_factor,
                   packing, cost, search, recommendation, forecast>>

NextAnalyze ==
    \/ AnalyzePacking
    \/ AnalyzeCost
    \/ RecommendEnter
    \/ SearchCandidate
    \/ SearchNextCores
    \/ RecommendReturn
    \/ AnalyzeRiskNotes

SpecAnalyze == InitAnalyze /\ [][NextAnalyze]_vars

(***************************************************************************)
(* Specification SpecForecast: compute_forecast is called on monthly costs *)
(* (as report/templates.py, forecast_data does), month by month of its     *)
(* loop, and then called again on the same arguments.                      *)
(***************************************************************************)
ForecastCosts == {0, 1000, 2333, 3001}          \* cents
ForecastGrowthRates == {None, Some(0), Some(120), Some(300), Some(-48)}

InitForecast ==
    /\ ServiceUnset
    /\ pc = "start"
    /\ node = Unset
    /\ executor = Unset
    /\ assumptions = Unset
    /\ workload = Unset
    /\ utilization_factor = None
    /\ packing = Unset
    /\ cost = Unset
    /\ search = Unset
    /\ recommendation = Unset
    /\ risk = Unset
    /\ \E current \in ForecastCosts, recommended \in ForecastCosts,
          months \in 1..MaxMonths, growth \in ForecastGrowthRates :
          forecast = [cost_current_monthly |-> current,
                      cost_recommended_monthly |-> recommended,
                      months |-> months,
                      growth_rate_pct |-> growth,
                      m |-> 0, cur |-> Frac(0, 1), rec |-> Frac(0, 1),
                      out |-> <<>>, returned |-> <<>>]

\* Lines 48-50: a call starts with an empty list and the base values.
CallComputeForecast ==
    /\ UNCHANGED serviceVars
    /\ pc = "start"
    /\ forecast' = [forecast EXCEPT
                       !.out = <<>>,
                       !.cur = Frac(forecast.cost_current_monthly, 1),
                       !.rec = Frac(forecast.cost_recommended_monthly, 1),
                       !.m = 1]
    /\ pc' = "forecasting"
    /\ UNCHANGED <<node, executor, assumptions, workload, utilization_factor,
                   packing, cost, search, recommendation, risk>>

\* Mutant of MonthInRange: the last month is left out.
MonthInRange_Exclusive == forecast.m < forecast.months

\* Line 51: for m in range(1, months + 1).
MonthInRange == forecast.m <= forecast.months

\* Lines 51-60: one month of the loop.
ForecastMonth ==
    /\ UNCHANGED serviceVars
    /\ pc = "forecasting"
    /\ MonthInRange
    /\ LET g == GrowthFactor(forecast.growth_rate_pct)
           grows == forecast.m > 1 /\ g.n # 0
           cur == IF grows THEN FracMul(forecast.cur, OnePlus(g))
                  ELSE forecast.cur
           rec == IF grows THEN FracMul(forecast.rec, OnePlus(g))
                  ELSE forecast.rec
       IN  forecast' = [forecast EXCEPT
                           !.cur = cur,
                           !.rec = rec,
                           !.out = Append(forecast.out,
                                          ForecastEntry(forecast.m, cur, rec)),
                           !.m = forecast.m + 1]
    /\ UNCHANGED <<pc, node, executor, assumptions, workload,
                   utilization_factor, packing, cost, search, recommendation,
                   risk>>

\* Line 61: return out; the caller keeps it and may call again.
ForecastReturn ==
    /\ UNCHANGED serviceVars
    /\ pc = "forecasting"
    /\ ~MonthInRange
    /\ forecast' = [forecast EXCEPT
                       !.returned = Append(forecast.returned, forecast.out)]
    /\ pc' = IF Len(forecast.returned) + 1 < MaxCalls THEN "start"
             ELSE "forecast_done"
    /\ UNCHANGED <<node, executor, assumptions, workload, utilization_factor,
                   packing, cost, search, recommendation, risk>>

NextForecast == CallComputeForecast \/ ForecastMonth \/ ForecastReturn

SpecForecast == InitForecast /\ [][NextForecast]_vars

(***************************************************************************)
(* Specification SpecRisk: compute_packing, then _risk_notes, on requests  *)
(* whose workload carries the optional profile fields.                     *)
(***************************************************************************)
RiskNode(count) ==
    [cores |-> 12, memory_gb |-> 96 * MemScale,
     hourly_cost_usd |-> CentScale * PriceScale, count |-> count]

\* 5.75 GB and 6 GB executors; the third does not fit the node.
RiskExecutors ==
    {[cores |-> 1, memory_gb |-> 6 * MemScale - 1],
     [cores |-> 4, memory_gb |-> 6 * MemScale],
     [cores |-> 16, memory_gb |-> 6 * MemScale]}

RiskPartitionCounts == {None, Some(2), Some(3), Some(48), Some(49), Some(97)}
RiskInputDataGb == {None, Some(1), Some(100)}
RiskConcurrentJobs == {None, Some(1), Some(2)}
RiskUtilizations == {None, Some(1), Some(UtilScale)}
RiskPeakMemory == {None, Some(5 * MemScale), Some(5 * MemScale + 2)}
RiskShuffles ==
    {<<None, None>>, <<Some(1024), Some(1024)>>, <<Some(200000), None>>}
RiskSkews == {None, Some("medium"), Some("high")}
RiskSpotPcts == {None, Some(50), Some(51)}

InitRisk ==
    /\ ServiceUnset
    /\ pc = "start"
    /\ node \in {RiskNode(count) : count \in 1..MaxRiskNodeCount}
    /\ executor \in RiskExecutors
    /\ assumptions = [reserve_cores |-> 0, reserve_memory_gb |-> 0]
    /\ \E partition_count \in RiskPartitionCounts,
          input_data_gb \in RiskInputDataGb,
          concurrent_jobs \in RiskConcurrentJobs,
          peak \in RiskPeakMemory, shuffle \in RiskShuffles,
          data_skew \in RiskSkews, spot_pct \in RiskSpotPcts :
          workload = [avg_runtime_minutes |-> MinutesPerHour,
                      jobs_per_day |-> 1,
                      partition_count |-> partition_count,
                      input_data_gb |-> input_data_gb,
                      concurrent_jobs |-> concurrent_jobs,
                      peak_executor_memory_gb |-> peak,
                      shuffle_read_mb |-> shuffle[1],
                      shuffle_write_mb |-> shuffle[2],
                      data_skew |-> data_skew,
                      spot_pct |-> spot_pct]
    /\ utilization_factor \in RiskUtilizations
    /\ packing = Unset
    /\ cost = Unset
    /\ search = Unset
    /\ recommendation = Unset
    /\ risk = Unset
    /\ forecast = Unset

RiskPacking ==
    /\ UNCHANGED serviceVars
    /\ pc = "start"
    /\ packing' = compute_packing(node, executor, assumptions)
    /\ pc' = "packed"
    /\ UNCHANGED <<node, executor, assumptions, workload, utilization_factor,
                   cost, search, recommendation, risk, forecast>>

CallRiskNotes ==
    /\ UNCHANGED serviceVars
    /\ pc = "packed"
    /\ IF risk_notes_raises(node, executor, workload, packing)
       THEN /\ risk' = Unset
            /\ pc' = "raised"
       ELSE /\ risk' = risk_notes(node, executor, workload,
                                  utilization_factor, packing)
            /\ pc' = "noted"
    /\ UNCHANGED <<node, executor, assumptions, workload, utilization_factor,
                   packing, cost, search, recommendation, forecast>>

NextRisk == RiskPacking \/ CallRiskNotes

SpecRisk == InitRisk /\ [][NextRisk]_vars

(***************************************************************************)
(* Specification SpecCache: worker threads serve POST /v1/analyze.  The     *)
(* endpoint is a plain function, so requests run in threads of the server's *)
(* pool; the cache has no lock, so a step is one access to the shared dict  *)
(* or list.                                                                  *)
(***************************************************************************)
\* Two threads of the server's pool.
Threads == {"worker-1", "worker-2"}

CacheNode == [cores |-> 2, memory_gb |-> 7 * MemScale,
              hourly_cost_usd |-> AnalyzeHourlyCostUsd * CentScale * PriceScale,
              count |-> 1]

CacheWorkload == [avg_runtime_minutes |-> MinutesPerHour,
                  jobs_per_day |-> AnalyzeJobsPerDay]

\* Three valid requests.  The first two differ only in how the default
\* assumptions are written; the third has another executor.
CacheRequests ==
    {[node |-> CacheNode, executor |-> [cores |-> 1, memory_gb |-> ExecutorMemoryStep],
      workload |-> CacheWorkload, assumptions |-> None,
      utilization_factor |-> None],
     [node |-> CacheNode, executor |-> [cores |-> 1, memory_gb |-> ExecutorMemoryStep],
      workload |-> CacheWorkload, assumptions |-> DefaultAssumptions,
      utilization_factor |-> None],
     [node |-> CacheNode, executor |-> [cores |-> 2, memory_gb |-> 2 * ExecutorMemoryStep],
      workload |-> CacheWorkload, assumptions |-> DefaultAssumptions,
      utilization_factor |-> None]}

EmptyDict == [k \in {} |-> Unset]

IdleThread ==
    [pc |-> "idle", request |-> Unset, key |-> Unset, data |-> Unset,
     created |-> 0, old |-> Unset, result |-> Unset, response |-> Unset,
     served |-> 0, overlapped |-> FALSE]

InitCache ==
    /\ pc = "serving"
    /\ node = Unset
    /\ executor = Unset
    /\ assumptions = Unset
    /\ workload = Unset
    /\ utilization_factor = None
    /\ packing = Unset
    /\ cost = Unset
    /\ search = Unset
    /\ recommendation = Unset
    /\ risk = Unset
    /\ forecast = Unset
    /\ clock = 0
    /\ environ = Unset
    /\ _analyze_cache = EmptyDict
    /\ _cache_order = <<>>
    /\ _store = Unset
    /\ _lock = 0
    /\ pending_reports = Unset
    /\ report_audit = Unset
    /\ threads = [t \in Threads |-> IdleThread]
    /\ log = Unset
    /\ responses = Unset

CacheFrame ==
    UNCHANGED <<pc, node, executor, assumptions, workload, utilization_factor,
                packing, cost, search, recommendation, risk, forecast,
                environ, _store, _lock, pending_reports, report_audit, log,
                responses>>

\* The thread leaves the endpoint with a response, or with the exception
\* that the server turns into a 500.
Returns(t, response) ==
    [threads EXCEPT ![t] = [IdleThread EXCEPT
                                !.request = threads[t].request,
                                !.result = threads[t].result,
                                !.response = response,
                                !.overlapped = threads[t].overlapped,
                                !.served = threads[t].served + 1]]

\* The requests received so far, answered or not.
RECURSIVE Received(_)
Received(T) ==
    IF T = {} THEN 0
    ELSE LET t == CHOOSE u \in T : TRUE
         IN  threads[t].served + (IF threads[t].pc = "idle" THEN 0 ELSE 1)
                 + Received(T \ {t})

\* time.time() advances, until an entry stored at 0 has expired.
Tick ==
    /\ clock <= _CACHE_TTL_SEC
    /\ clock' = clock + 1
    /\ UNCHANGED <<_analyze_cache, _cache_order, threads>>
    /\ CacheFrame

\* api.py lines 230-231, resilience.py lines 35-39: a request arrives; the
\* key is computed and looked up.  `overlapped` records that another request
\* was being served at some moment of this one.
AnalyzeGetLookup(t) ==
    /\ threads[t].pc = "idle"
    /\ Received(Threads) < MaxServed
    /\ \E request \in CacheRequests :
          LET key == analyze_cache_key(request)
              others == {u \in Threads \ {t} : threads[u].pc # "idle"}
          IN  threads' = [u \in Threads |->
                  IF u = t
                  THEN [threads[t] EXCEPT
                            !.request = request,
                            !.key = key,
                            !.response = Unset,
                            !.data = Unset,
                            !.result = Unset,
                            !.overlapped = others # {},
                            !.pc = IF _CACHE_TTL_SEC <= 0 THEN "compute"
                                   ELSE IF key \notin DOMAIN _analyze_cache
                                   THEN "compute"
                                   ELSE "get_read"]
                  ELSE IF u \in others
                  THEN [threads[u] EXCEPT !.overlapped = TRUE]
                  ELSE threads[u]]
    /\ UNCHANGED <<clock, _analyze_cache, _cache_order>>
    /\ CacheFrame

\* resilience.py line 40: data, created = _analyze_cache[key].
AnalyzeGetRead(t) ==
    /\ threads[t].pc = "get_read"
    /\ IF threads[t].key \notin DOMAIN _analyze_cache
       THEN threads' = Returns(t, [status |-> 500, error |-> "KeyError"])
       ELSE threads' = [threads EXCEPT
                ![t].data = _analyze_cache[threads[t].key].data,
                ![t].created = _analyze_cache[threads[t].key].created,
                ![t].pc = "get_expiry"]
    /\ UNCHANGED <<clock, _analyze_cache, _cache_order>>
    /\ CacheFrame

\* resilience.py lines 41-42 and 46, api.py lines 232-233: an expired entry
\* is popped; a live one is returned.
AnalyzeGetExpiry(t) ==
    /\ threads[t].pc = "get_expiry"
    /\ IF clock - threads[t].created > _CACHE_TTL_SEC
       THEN /\ _analyze_cache' = DictPop(_analyze_cache, threads[t].key)
            /\ threads' = [threads EXCEPT ![t].pc = "get_order_check"]
       ELSE /\ threads' = Returns(t, [status |-> 200,
                                      body |-> threads[t].data])
            /\ UNCHANGED _analyze_cache
    /\ UNCHANGED <<clock, _cache_order>>
    /\ CacheFrame

\* resilience.py line 43: if key in _cache_order.
AnalyzeGetOrderCheck(t) ==
    /\ threads[t].pc = "get_order_check"
    /\ threads' = [threads EXCEPT ![t].pc =
           IF InList(threads[t].key, _cache_order) THEN "get_order_remove"
           ELSE "compute"]
    /\ UNCHANGED <<clock, _analyze_cache, _cache_order>>
    /\ CacheFrame

\* resilience.py lines 44-45: _cache_order.remove(key), ValueError when the
\* key is no longer listed.
AnalyzeGetOrderRemove(t) ==
    /\ threads[t].pc = "get_order_remove"
    /\ IF InList(threads[t].key, _cache_order)
       THEN /\ _cache_order' = ListRemove(_cache_order, threads[t].key)
            /\ threads' = [threads EXCEPT ![t].pc = "compute"]
       ELSE /\ threads' = Returns(t, [status |-> 500, error |-> "ValueError"])
            /\ UNCHANGED _cache_order
    /\ UNCHANGED <<clock, _analyze_cache>>
    /\ CacheFrame

\* api.py lines 234-237 and resilience.py lines 51-53: _do_analyze computes
\* the response; an exception leaves the endpoint.
AnalyzeCompute(t) ==
    /\ threads[t].pc = "compute"
    /\ LET result == do_analyze(threads[t].request)
       IN  threads' =
               IF result.kind = "raised"
               THEN Returns(t, [status |-> 500, error |-> "ValidationError"])
               ELSE IF _CACHE_TTL_SEC <= 0
               THEN Returns(t, [status |-> 200, body |-> result])
               ELSE [threads EXCEPT ![t].result = result,
                                    ![t].pc = "set_while"]
    /\ UNCHANGED <<clock, _analyze_cache, _cache_order>>
    /\ CacheFrame

\* resilience.py line 54: the loop condition.
AnalyzeSetWhile(t) ==
    /\ threads[t].pc = "set_while"
    /\ threads' = [threads EXCEPT ![t].pc =
           IF CacheIsFull(_analyze_cache, _cache_order) THEN "set_pop_order"
           ELSE "set_store"]
    /\ UNCHANGED <<clock, _analyze_cache, _cache_order>>
    /\ CacheFrame

\* resilience.py line 55: old = _cache_order.pop(0), IndexError when the list
\* has been emptied meanwhile.
AnalyzeSetPopOrder(t) ==
    /\ threads[t].pc = "set_pop_order"
    /\ IF _cache_order = <<>>
       THEN /\ threads' = Returns(t, [status |-> 500, error |-> "IndexError"])
            /\ UNCHANGED _cache_order
       ELSE /\ _cache_order' = Tail(_cache_order)
            /\ threads' = [threads EXCEPT ![t].old = Head(_cache_order),
                                          ![t].pc = "set_pop_cache"]
    /\ UNCHANGED <<clock, _analyze_cache>>
    /\ CacheFrame

\* resilience.py line 56: _analyze_cache.pop(old, None).
AnalyzeSetPopCache(t) ==
    /\ threads[t].pc = "set_pop_cache"
    /\ _analyze_cache' = DictPop(_analyze_cache, threads[t].old)
    /\ threads' = [threads EXCEPT ![t].pc = "set_while"]
    /\ UNCHANGED <<clock, _cache_order>>
    /\ CacheFrame

\* resilience.py line 57: _analyze_cache[key] = (response_dict, time.time()).
AnalyzeSetStore(t) ==
    /\ threads[t].pc = "set_store"
    /\ _analyze_cache' = DictSet(_analyze_cache, threads[t].key,
                                 [data |-> threads[t].result,
                                  created |-> clock])
    /\ threads' = [threads EXCEPT ![t].pc = "set_order_check"]
    /\ UNCHANGED <<clock, _cache_order>>
    /\ CacheFrame

\* resilience.py line 58, api.py line 239: if key not in _cache_order.
AnalyzeSetOrderCheck(t) ==
    /\ threads[t].pc = "set_order_check"
    /\ threads' =
           IF InList(threads[t].key, _cache_order)
           THEN Returns(t, [status |-> 200, body |-> threads[t].result])
           ELSE [threads EXCEPT ![t].pc = "set_append"]
    /\ UNCHANGED <<clock, _analyze_cache, _cache_order>>
    /\ CacheFrame

\* resilience.py line 59, api.py line 239: _cache_order.append(key).
AnalyzeSetAppend(t) ==
    /\ threads[t].pc = "set_append"
    /\ _cache_order' = Append(_cache_order, threads[t].key)
    /\ threads' = Returns(t, [status |-> 200, body |-> threads[t].result])
    /\ UNCHANGED <<clock, _analyze_cache>>
    /\ CacheFrame

NextCache ==
    \/ Tick
    \/ \E t \in Threads : AnalyzeGetLookup(t)
    \/ \E t \in Threads : AnalyzeGetRead(t)
    \/ \E t \in Threads : AnalyzeGetExpiry(t)
    \/ \E t \in Threads : AnalyzeGetOrderCheck(t)
    \/ \E t \in Threads : AnalyzeGetOrderRemove(t)
    \/ \E t \in Threads : AnalyzeCompute(t)
    \/ \E t \in Threads : AnalyzeSetWhile(t)
    \/ \E t \in Threads : AnalyzeSetPopOrder(t)
    \/ \E t \in Threads : AnalyzeSetPopCache(t)
    \/ \E t \in Threads : AnalyzeSetStore(t)
    \/ \E t \in Threads : AnalyzeSetOrderCheck(t)
    \/ \E t \in Threads : AnalyzeSetAppend(t)

SpecCache == InitCache /\ [][NextCache]_vars

(***************************************************************************)
(* Specification SpecAuth: the service starts under some environment       *)
(* (lifespan), then answers one POST /v1/report.                           *)
(***************************************************************************)
EnvValues ==
    {None, Some(Str("production")), Some(Padded(Upper(Str("prod")))),
     Some(Str("development")), Some(Str(""))}
DemoValues == {None, Some(Str("1")), Some(Padded(Upper(Str("yes")))), Some(Str("0"))}
ApiKeyValues == {None, Some(Str("secret")), Some(Str(""))}
ApiKeysValues == {None, Some(Padded(Str("secret"))), Some(Str("other"))}
FailInProdValues == {None, Some(Str("1")), Some(Str("0"))}

XApiKeyHeaders ==
    {None, Some(Str("secret")), Some(Str("wrong")), Some(Padded(Str("")))}
AuthorizationHeaders ==
    {None,
     Some([scheme |-> "Bearer ", credentials |-> Str("secret")]),
     Some([scheme |-> "Bearer ", credentials |-> Padded(Str("other"))]),
     Some([scheme |-> "Bearer ", credentials |-> Str("wrong")]),
     Some([scheme |-> "Basic ", credentials |-> Str("secret")])}

InitAuth ==
    /\ pc = "starting"
    /\ node = Unset
    /\ executor = Unset
    /\ assumptions = Unset
    /\ workload = Unset
    /\ utilization_factor = None
    /\ packing = Unset
    /\ cost = Unset
    /\ search = Unset
    /\ recommendation = Unset
    /\ risk = Unset
    /\ forecast = Unset
    /\ clock = 0
    /\ environ \in [ICEA_ENV : EnvValues,
                    NODE_ENV : EnvValues,
                    ICEA_DEMO : DemoValues,
                    ICEA_API_KEY : ApiKeyValues,
                    ICEA_API_KEYS : ApiKeysValues,
                    ICEA_DEMO_FAIL_IN_PROD : FailInProdValues]
    /\ _analyze_cache = Unset
    /\ _cache_order = Unset
    /\ _store = Unset
    /\ _lock = 0
    /\ pending_reports = Unset
    /\ report_audit = Unset
    /\ threads = Unset
    /\ log = <<>>
    /\ responses = <<>>

AuthFrame ==
    UNCHANGED <<node, executor, assumptions, workload, utilization_factor,
                packing, cost, search, recommendation, risk, forecast,
                clock, environ, _analyze_cache, _cache_order, _store, _lock,
                pending_reports, report_audit>>

\* api.py lines 62-69, security.py lines 48-59: the startup check.  A
\* RuntimeError aborts the startup.
Lifespan ==
    /\ pc = "starting"
    /\ LET check == check_demo_in_production(environ)
       IN  /\ log' = IF check.critical
                     THEN Append(log, [level |-> "CRITICAL"]) ELSE log
           /\ pc' = IF check.raised THEN "aborted" ELSE "serving"
    /\ UNCHANGED <<threads, responses>>
    /\ AuthFrame

\* api.py lines 272-277, auth.py lines 50-71: a request arrives and the
\* dependency require_report_auth runs; its HTTPException is the response.
ReportAuthorize ==
    /\ pc = "serving"
    /\ \E x_api_key \in XApiKeyHeaders, authorization \in AuthorizationHeaders :
          LET status == require_report_auth(environ, x_api_key, authorization)
          IN  /\ threads' = [x_api_key |-> x_api_key,
                             authorization |-> authorization,
                             demo |-> is_demo_enabled(environ),
                             generated |-> FALSE]
              /\ IF status = 200
                 THEN /\ pc' = "authorized"
                      /\ UNCHANGED responses
                 ELSE /\ pc' = "answered"
                      /\ responses' = Append(responses, [status |-> status])
    /\ UNCHANGED log
    /\ AuthFrame

\* api.py lines 282-298: the report is generated and returned, or the
\* generation times out.
ReportGenerate ==
    /\ pc = "authorized"
    /\ threads' = [threads EXCEPT !.generated = TRUE]
    /\ \E status \in {200, 504} :
          responses' = Append(responses, [status |-> status])
    /\ pc' = "answered"
    /\ UNCHANGED log
    /\ AuthFrame

NextAuth == Lifespan \/ ReportAuthorize \/ ReportGenerate

SpecAuth == InitAuth /\ [][NextAuth]_vars

(***************************************************************************)
(* Specification SpecStore: tokens are issued (checkout, POST              *)
(* /v1/report/html) and two worker threads serve GET /v1/report-paid and   *)
(* GET /v1/report/html for them.                                           *)
(***************************************************************************)
Tokens == 1..MaxTokens

\* The token of a request: an issued one, or 0, which was never issued.
RequestTokens == 0..MaxTokens

\* The requests a pending report is stored for (request.model_dump()).
StoreRequests == {request \in CacheRequests : request.assumptions # None}

\* The routes: /v1/report-paid?format=pdf, /v1/report-paid, /v1/report/html.
Routes == {"paid_pdf", "paid_html", "report_html"}

Workers == {1, 2}

IdleWorker ==
    [pc |-> "idle", route |-> "", token |-> 0, row |-> None,
     result |-> None, request_id |-> 0]

InitStore ==
    /\ pc = "serving"
    /\ node = Unset
    /\ executor = Unset
    /\ assumptions = Unset
    /\ workload = Unset
    /\ utilization_factor = None
    /\ packing = Unset
    /\ cost = Unset
    /\ search = Unset
    /\ recommendation = Unset
    /\ risk = Unset
    /\ forecast = Unset
    /\ clock = 0
    /\ environ = Unset
    /\ _analyze_cache = Unset
    /\ _cache_order = Unset
    /\ _store = Unset
    /\ _lock = 0
    /\ pending_reports = EmptyDict
    /\ report_audit = <<>>
    /\ threads = [t \in Workers |-> IdleWorker]
    /\ log = Unset
    /\ responses = <<>>

StoreFrame ==
    UNCHANGED <<pc, node, executor, assumptions, workload, utilization_factor,
                packing, cost, search, recommendation, risk, forecast,
                environ, _analyze_cache, _cache_order, _store, log>>

\* time.time() advances, until a token issued at 0 has expired.
StoreTick ==
    /\ clock <= _EXPIRY_SECONDS
    /\ clock' = clock + 1
    /\ UNCHANGED <<_lock, pending_reports, report_audit, threads, responses>>
    /\ StoreFrame

\* The tokens issued so far: secrets.token_urlsafe(32) returns a new one.
Issued == {token \in Tokens :
               \/ token \in DOMAIN pending_reports
               \/ \E i \in 1..Len(responses) : responses[i].token = token
               \/ \E t \in Workers : threads[t].token = token}

\* store.py lines 102-118 (api.py lines 312 and 464): a token is issued for
\* a request, under the lock.
CreatePendingReport ==
    /\ LockIsFree(_lock)
    /\ \E token \in Tokens, request \in StoreRequests :
          /\ token \notin Issued
          /\ \A other \in Tokens : other < token => other \in Issued
          /\ pending_reports' =
                 create_pending_report(pending_reports, token, request, clock)
    /\ UNCHANGED <<clock, _lock, report_audit, threads, responses>>
    /\ StoreFrame

\* The requests received so far.
ReportRequestsReceived ==
    Len(responses) + Cardinality({u \in Workers : threads[u].pc # "idle"})

\* The thread answers and is free for the next request.
Answers(t, status, body) ==
    /\ responses' = Append(responses,
                           [route |-> threads[t].route,
                            token |-> threads[t].token,
                            request_id |-> threads[t].request_id,
                            status |-> status, body |-> body])
    /\ threads' = [threads EXCEPT ![t] = IdleWorker]

\* api.py lines 328-329 and 390, observability.py lines 24-25: a request
\* with a token arrives and is given its request id; the handler's call into
\* the store then waits for the lock.
ReceiveReportRequest(t) ==
    /\ threads[t].pc = "idle"
    /\ ReportRequestsReceived < MaxReportRequests
    /\ \E route \in Routes, token \in RequestTokens :
          threads' = [threads EXCEPT ![t] =
              [IdleWorker EXCEPT
                   !.pc = "acquire", !.route = route, !.token = token,
                   !.request_id = 1 + ReportRequestsReceived]]
    /\ UNCHANGED <<clock, _lock, pending_reports, report_audit, responses>>
    /\ StoreFrame

\* api.py lines 357-385 and 396-426, store.py lines 121-140: the lock is
\* taken, get_pending_report runs and releases it, and the handler answers
\* 404 or with the HTML view of the request.
ViewReport(t) ==
    /\ threads[t].pc = "acquire"
    /\ threads[t].route \in {"paid_html", "report_html"}
    /\ LockIsFree(_lock)
    /\ LET got == get_pending_report(pending_reports, threads[t].token, clock)
       IN  /\ pending_reports' = got.table
           /\ IF ~got.result.some
              THEN Answers(t, 404, None)
              ELSE Answers(t, 200, got.result)
    /\ UNCHANGED <<clock, _lock, report_audit>>
    /\ StoreFrame

\* store.py lines 145-152: consume_pending_report takes the lock and selects
\* the row.
ConsumeSelect(t) ==
    /\ threads[t].pc = "acquire"
    /\ threads[t].route = "paid_pdf"
    /\ LockIsFree(_lock)
    /\ _lock' = t
    /\ threads' = [threads EXCEPT
           ![t].row = SelectRow(pending_reports, threads[t].token),
           ![t].pc = "selected"]
    /\ UNCHANGED <<clock, pending_reports, report_audit, responses>>
    /\ StoreFrame

\* store.py lines 153-164, api.py lines 336-337: the row is deleted, the
\* lock released and the request returned; when None is returned the handler
\* answers 404.
ConsumeDelete(t) ==
    /\ threads[t].pc = "selected"
    /\ LET got == consume_selected_row(pending_reports, threads[t].token,
                                       threads[t].row, clock)
       IN  /\ pending_reports' = got.table
           /\ IF ~got.result.some
              THEN Answers(t, 404, None)
              ELSE /\ threads' = [threads EXCEPT ![t].result = got.result,
                                                 ![t].row = None,
                                                 ![t].pc = "consumed"]
                   /\ UNCHANGED responses
    /\ _lock' = IF _lock = t THEN 0 ELSE _lock
    /\ UNCHANGED <<clock, report_audit>>
    /\ StoreFrame

\* api.py lines 338-356, store.py lines 64-78, resilience.py lines 18-25:
\* the audit row is written under the lock; then the PDF is generated and
\* returned, or the generation times out and the answer is 504.
DeliverPdf(t) ==
    /\ threads[t].pc = "consumed"
    /\ LockIsFree(_lock)
    /\ report_audit' = Append(report_audit,
                              [token_preview |-> threads[t].token,
                               delivered_at |-> clock,
                               request_id |-> threads[t].request_id])
    /\ \/ Answers(t, 200, threads[t].result)
       \/ Answers(t, 504, None)
    /\ UNCHANGED <<clock, _lock, pending_reports>>
    /\ StoreFrame

NextStore ==
    \/ StoreTick
    \/ CreatePendingReport
    \/ \E t \in Workers : ReceiveReportRequest(t)
    \/ \E t \in Workers : ViewReport(t)
    \/ \E t \in Workers : ConsumeSelect(t)
    \/ \E t \in Workers : ConsumeDelete(t)
    \/ \E t \in Workers : DeliverPdf(t)

SpecStore == InitStore /\ [][NextStore]_vars

(***************************************************************************)
(* Specification SpecRate: requests of two clients pass through            *)
(* RateLimitMiddleware.dispatch while time advances.                       *)
(***************************************************************************)
ClientIps == {"10.0.0.1", "10.0.0.2"}

\* "/", "/v1/analyze", "/v1/health" and "/index.html".
RequestPaths == {<<"">>, <<"v1", "analyze">>, <<"v1", "health">>,
                 <<"index.html">>}

\* time.time() when the first request arrives: more than a window after 0.
FirstRequestTime == _RATE_LIMIT_WINDOW_SEC

\* time.time() is followed for two windows.
LastRequestTime == FirstRequestTime + 2 * _RATE_LIMIT_WINDOW_SEC

InitRate ==
    /\ pc = "serving"
    /\ node = Unset
    /\ executor = Unset
    /\ assumptions = Unset
    /\ workload = Unset
    /\ utilization_factor = None
    /\ packing = Unset
    /\ cost = Unset
    /\ search = Unset
    /\ recommendation = Unset
    /\ risk = Unset
    /\ forecast = Unset
    /\ clock = FirstRequestTime
    /\ environ = Unset
    /\ _analyze_cache = Unset
    /\ _cache_order = Unset
    /\ _store = EmptyDict
    /\ _lock = 0
    /\ pending_reports = Unset
    /\ report_audit = Unset
    /\ threads = Unset
    /\ log = Unset
    /\ responses = <<>>

RateFrame ==
    UNCHANGED <<pc, node, executor, assumptions, workload, utilization_factor,
                packing, cost, search, recommendation, risk, forecast,
                environ, _analyze_cache, _cache_order, _lock, pending_reports,
                report_audit, threads, log>>

\* time.time() advances by a second.
RateTick ==
    /\ clock < LastRequestTime
    /\ clock' = clock + 1
    /\ UNCHANGED <<_store, responses>>
    /\ RateFrame

\* security.py lines 26-45: a request of a client is dispatched.
Dispatch ==
    /\ Len(responses) < MaxDispatched
    /\ \E ip \in ClientIps, path \in RequestPaths :
          LET answer == dispatch(_store, ip, path, clock)
          IN  /\ _store' = answer.store
              /\ responses' = Append(responses,
                                     [ip |-> ip, path |-> path, time |-> clock,
                                      status |-> answer.status,
                                      retry_after |-> answer.retry_after])
    /\ UNCHANGED clock
    /\ RateFrame

NextRate ==
    \/ RateTick
    \/ Dispatch

SpecRate == InitRate /\ [][NextRate]_vars

(***************************************************************************)
(* Properties of compute_packing (checked under SpecPacking).              *)
(***************************************************************************)
\* The inputs of the call, read off the request.
InC == node.cores - assumptions.reserve_cores
InM == node.memory_gb - assumptions.reserve_memory_gb
Inc == executor.cores
Inm == executor.memory_gb

\* C1: executors_per_node is min(floor(effective_cores / executor.cores),
\* floor(effective_mem / executor.memory_gb)) when both effective dimensions
\* are positive and 0 otherwise; the executors placed fit on both dimensions
\* and one more would not fit.
C1_ExecutorsPerNodeFloorMin ==
    pc = "packed" =>
        LET k == packing.executors_per_node
        IN  /\ (InC > 0 /\ InM > 0) => k = Min(InC \div Inc, InM \div Inm)
            /\ ~(InC > 0 /\ InM > 0) => k = 0
            /\ k >= 0
            /\ k > 0 => (k * Inc <= InC /\ k * Inm <= InM)
            /\ (k + 1) * Inc > InC \/ (k + 1) * Inm > InM

\* C1 witness: several executors are placed, memory allows fewer than cores.
C1_Witness ==
    /\ pc = "packed"
    /\ InC > 0 /\ InM > 0
    /\ packing.executors_per_node >= 2
    /\ InM \div Inm < InC \div Inc
    /\ assumptions.reserve_cores > 0 /\ assumptions.reserve_memory_gb > 0

\* C2: every fraction of the returned PackingResult lies in [0,1] and its
\* waste field is the larger of its cpu_waste and mem_waste fields.
C2_FractionsInUnitIntervalWasteIsMax ==
    pc = "packed" =>
        /\ packing.cpu_utilization \in 0..RatioScale
        /\ packing.mem_utilization \in 0..RatioScale
        /\ packing.cpu_waste \in 0..RatioScale
        /\ packing.mem_waste \in 0..RatioScale
        /\ packing.waste \in 0..RatioScale
        /\ packing.waste = Max(packing.cpu_waste, packing.mem_waste)

\* C2 witness: both wastes are strictly between 0 and 1 and differ.
C2_Witness ==
    /\ pc = "packed"
    /\ packing.cpu_waste > 0 /\ packing.cpu_waste < packing.mem_waste
    /\ packing.mem_waste < RatioScale

\* round(100 * (1 - waste)) of a waste given in units of 1/RatioScale, clamped.
ScoreFromField(waste_field) ==
    Min(ScoreScale,
        Max(0, PyRound(ScoreScale * (RatioScale - waste_field), RatioScale)))

\* The unrounded waste of the returned packing, from the request and the
\* returned executors_per_node.
UnroundedWaste ==
    IF InC <= 0 \/ InM <= 0 THEN Frac(1, 1)
    ELSE LET k == packing.executors_per_node
             cw == Frac(InC - k * Inc, InC)
             mw == Frac(InM - k * Inm, InM)
         IN  IF cw.n * mw.d >= mw.n * cw.d THEN cw ELSE mw

\* C3 as stated: efficiency_score equals round(100 * (1 - waste)) computed
\* from the (4-decimal) waste field of the same returned result, clamped to
\* [0,100].
C3_ScoreFromReturnedWaste ==
    pc = "packed" => packing.efficiency_score = ScoreFromField(packing.waste)

\* C3 amended: efficiency_score equals round(100 * (1 - waste)) computed from
\* the waste before it is rounded to 4 decimals, clamped to [0,100]; it differs
\* by at most 1 from the value computed from the returned waste field.
C3_ScoreFromUnroundedWaste ==
    pc = "packed" =>
        LET w == UnroundedWaste
        IN  /\ packing.efficiency_score =
                   Min(ScoreScale,
                       Max(0, PyRound(ScoreScale * (w.d - w.n), w.d)))
            /\ Abs(packing.efficiency_score - ScoreFromField(packing.waste)) <= 1

\* C3 witness: a packing whose score is not the one its waste field gives.
C3_Witness ==
    /\ pc = "packed"
    /\ packing.executors_per_node > 0
    /\ packing.efficiency_score # ScoreFromField(packing.waste)

\* C4: a shape that does not fit is a valid result: when an effective
\* dimension is <= 0, or the executor is larger than the effective node on
\* either dimension, the result has executors_per_node = 0,
\* cpu_waste = mem_waste = waste = 1 and efficiency_score = 0.
C4_NoFitIsDegenerateResult ==
    pc = "packed" =>
        ((InC <= 0 \/ InM <= 0 \/ Inc > InC \/ Inm > InM) =>
            /\ packing.executors_per_node = 0
            /\ packing.cpu_waste = RatioScale
            /\ packing.mem_waste = RatioScale
            /\ packing.waste = RatioScale
            /\ packing.efficiency_score = 0)

\* C4 witness: the early return (no effective memory left).
C4_Witness ==
    /\ pc = "packed"
    /\ InC > 0 /\ InM <= 0
    /\ packing.executors_per_node = 0 /\ packing.waste = RatioScale

\* C4, the other case: capacity is left but the executor is larger than it.
C4_WitnessTooLarge ==
    /\ pc = "packed"
    /\ InC > 0 /\ InM > 0 /\ Inm > InM
    /\ packing.executors_per_node = 0 /\ packing.efficiency_score = 0

(***************************************************************************)
(* Properties of compute_cost (checked under SpecCost).                    *)
(***************************************************************************)
\* The utilization the claim describes, in 1/UtilScale: the factor when it
\* lies in (0,1], 1.0 when it is absent, <= 0 or > 1.
ClaimedU ==
    IF utilization_factor.some /\ utilization_factor.v > 0
       /\ utilization_factor.v <= UtilScale
    THEN utilization_factor.v
    ELSE UtilScale

\* hourly cost x count x (minutes / 60) x jobs x u, in cents, not rounded.
ExactDailyCost ==
    Frac(node.hourly_cost_usd * node.count * workload.avg_runtime_minutes
             * workload.jobs_per_day * ClaimedU,
         PriceScale * MinutesPerHour * UtilScale)

C5_WitnessDiscount ==
    /\ pc = "costed"
    /\ utilization_factor.some /\ utilization_factor.v \in 1..(UtilScale - 1)
    /\ cost.daily_cost_usd > 0
    /\ cost.daily_cost_usd < cost.hourly_cluster_cost_usd

\* C6: rounding happens only at the output boundary: each of daily_cost_usd,
\* waste_cost_daily_usd and waste_cost_monthly_usd is the exact value of its
\* formula rounded once to 2 decimals.
C6_RoundedOnlyAtOutput ==
    pc = "costed" =>
        LET waste == Frac(packing.waste, RatioScale)
            exact_waste_daily == FracMul(ExactDailyCost, waste)
            exact_waste_monthly ==
                FracMul(exact_waste_daily, Frac(DaysPerMonth, 1))
        IN  /\ cost.daily_cost_usd = Round2(ExactDailyCost)
            /\ cost.waste_cost_daily_usd = Round2(exact_waste_daily)
            /\ cost.waste_cost_monthly_usd = Round2(exact_waste_monthly)

\* compute_cost with node.count, avg_runtime_minutes or jobs_per_day
\* multiplied, everything else (the packing included) as in the state.
CostScaled(k_count, k_runtime, k_jobs) ==
    compute_cost([node EXCEPT !.count = @ * k_count],
                 [workload EXCEPT !.avg_runtime_minutes = @ * k_runtime,
                                  !.jobs_per_day = @ * k_jobs],
                 packing, utilization_factor)

ScaledCosts(k) == {CostScaled(k, 1, 1), CostScaled(1, k, 1), CostScaled(1, 1, k)}

\* C7 as stated: multiplying node.count, or avg_runtime_minutes x
\* jobs_per_day, by an integer k multiplies daily_cost_usd,
\* waste_cost_daily_usd and waste_cost_monthly_usd by exactly k.
C7_ExactlyLinear ==
    pc = "costed" =>
        \A k \in 2..MaxFactor : \A s \in ScaledCosts(k) :
            /\ s.daily_cost_usd = k * cost.daily_cost_usd
            /\ s.waste_cost_daily_usd = k * cost.waste_cost_daily_usd
            /\ s.waste_cost_monthly_usd = k * cost.waste_cost_monthly_usd

\* The base figures needed no rounding: they are whole cents as computed.
NoRoundingAtBase ==
    /\ ExactDailyCost.n % ExactDailyCost.d = 0
    /\ (cost.daily_cost_usd * packing.waste) % RatioScale = 0

\* C7 amended: the figures are multiplied by exactly k when the base daily
\* cost and waste cost are whole cents before rounding; otherwise, because
\* every figure is rounded to cents, they differ from k times the base figure
\* by at most (k+1)/2 cent (daily), k+1 cents (waste daily) and 30(k+1) cents
\* (waste monthly).
C7_LinearUpToRounding ==
    pc = "costed" =>
        \A k \in 2..MaxFactor : \A s \in ScaledCosts(k) :
            /\ 2 * Abs(s.daily_cost_usd - k * cost.daily_cost_usd) <= k + 1
            /\ Abs(s.waste_cost_daily_usd - k * cost.waste_cost_daily_usd)
                   <= k + 1
            /\ Abs(s.waste_cost_monthly_usd - k * cost.waste_cost_monthly_usd)
                   <= DaysPerMonth * (k + 1)
            /\ NoRoundingAtBase =>
                   /\ s.daily_cost_usd = k * cost.daily_cost_usd
                   /\ s.waste_cost_daily_usd = k * cost.waste_cost_daily_usd
                   /\ s.waste_cost_monthly_usd = k * cost.waste_cost_monthly_usd

\* C7 witness: doubling node.count does not double the returned daily cost.
C7_Witness ==
    /\ pc = "costed"
    /\ cost.daily_cost_usd > 0
    /\ CostScaled(2, 1, 1).daily_cost_usd # 2 * cost.daily_cost_usd

\* C7, the exact case: whole-cent base figures with waste, tripled.
C7_WitnessExact ==
    /\ pc = "costed"
    /\ NoRoundingAtBase
    /\ cost.waste_cost_daily_usd > 0
    /\ CostScaled(1, 1, 3).waste_cost_monthly_usd
           = 3 * cost.waste_cost_monthly_usd

(***************************************************************************)
(* Properties of recommend (checked under SpecAnalyze).                    *)
(***************************************************************************)
CoreCandidateSet == {CORE_CANDIDATES[i] : i \in 1..Len(CORE_CANDIDATES)}

\* The (cores, memory in GB) pairs the two loops enumerate for the request.
Enumerated ==
    {x \in CoreCandidateSet \X (MIN_EXECUTOR_MEMORY_GB..Max(IntGb(InM), 0)) :
        x[1] <= InC /\ x[2] * MemScale <= InM}

CandidatePacking(x) ==
    compute_packing(node, [cores |-> x[1], memory_gb |-> x[2] * MemScale],
                    assumptions)

\* The enumerated candidates that pass the guardrails.
Passing ==
    {x \in Enumerated :
        /\ CandidatePacking(x).executors_per_node >= 1
        /\ CandidatePacking(x).executors_per_node <= MAX_EXECUTORS_PER_NODE}

Returned == pc = "recommended" /\ recommendation.kind = "config"

ReturnedShape ==
    <<recommendation.executor_cores,
      recommendation.executor_memory_gb \div MemScale>>

\* Enumeration order: cores ascending, then memory ascending.
NotAfter(x, y) == x[1] < y[1] \/ (x[1] = y[1] /\ x[2] <= y[2])

\* C8: a returned RecommendedConfig respects the guardrails and the grid:
\* 1 <= executors_per_node <= 12, executor_cores is one of {1,2,3,4,5,6,8}
\* and at most the effective cores C, executor_memory_gb is a whole number of
\* GB with 6 <= executor_memory_gb <= effective memory M.
C8_RespectsGuardrailsAndGrid ==
    Returned =>
        /\ recommendation.executors_per_node >= 1
        /\ recommendation.executors_per_node <= 12
        /\ recommendation.executor_cores \in {1, 2, 3, 4, 5, 6, 8}
        /\ recommendation.executor_cores <= InC
        /\ recommendation.executor_memory_gb % MemScale = 0
        /\ recommendation.executor_memory_gb >= 6 * MemScale
        /\ recommendation.executor_memory_gb <= InM

\* C8 witness: a config is returned for a node on which some enumerated
\* candidate packs more than 12 executors.
C8_Witness ==
    /\ Returned
    /\ recommendation.executors_per_node > 1
    /\ \E x \in Enumerated :
           CandidatePacking(x).executors_per_node > MAX_EXECUTORS_PER_NODE

\* C8, fractional effective memory: the returned memory is the whole number
\* of GB below M.
C8_WitnessFractionalMemory ==
    /\ Returned
    /\ InM % MemScale # 0
    /\ recommendation.executor_memory_gb = IntGb(InM) * MemScale

C9_WitnessTieDiffers ==
    /\ Returned
    /\ \E x \in Passing :
           /\ CandidatePacking(x).waste = recommendation.waste
           /\ CandidatePacking(x).executors_per_node
                  < recommendation.executors_per_node

\* C10: a returned RecommendedConfig never has more waste than the
\* configuration the caller already runs: waste <= current_packing.waste.
C10_NeverMoreWasteThanCurrent ==
    Returned => recommendation.waste <= packing.waste

\* C10, the usual case: the returned config has less waste than the
\* current one.
C10_WitnessImproves ==
    Returned /\ recommendation.waste < packing.waste

\* The candidate the loop body is about to construct.
NextCandidate ==
    [cores |-> CORE_CANDIDATES[search.ci], memory_gb |-> search.m * MemScale]

\* C11: for every valid request recommend terminates normally, with a
\* RecommendedConfig or none and no exception, after evaluating at most
\* 7 core candidates x 123 memory steps, and every candidate executor shape
\* it constructs during the search is a valid ExecutorConfig.
C11_TerminatesNormallyWithinBound ==
    /\ pc # "failed"
    /\ recommendation # RecommendRaised
    /\ pc = "searching" /\ MemoryLoopHasNext
           => ValidExecutorConfig(NextCandidate)
    /\ pc \in {"searching", "recommended"} /\ search # Unset
           => search.evaluated <= 7 * 123

recommend_ended == pc \in {"recommended", "failed"}

\* C12: recommend returns none, without raising, when C <= 0 or M <= 0 and
\* when no enumerated candidate passes the guardrails; it returns a
\* RecommendedConfig whenever at least one candidate passes the guardrails,
\* even if that candidate does not improve on the current configuration.
C12_NoneIffNoCandidatePasses ==
    recommend_ended =>
        /\ (InC <= 0 \/ InM <= 0 \/ Passing = {})
               => recommendation = RecommendNone
        /\ Passing # {} => recommendation.kind = "config"

\* C12, the cases that do hold: none for an empty search space and for
\* effective memory below the 6 GB minimum.
C12_WitnessNoCapacity ==
    pc = "recommended" /\ InC <= 0 /\ recommendation = RecommendNone

C12_WitnessBelowMinimumMemory ==
    /\ pc = "recommended" /\ InC > 0 /\ InM > 0
    /\ InM < MIN_EXECUTOR_MEMORY_GB * MemScale
    /\ recommendation = RecommendNone

\* The cost model's monthly waste cost of the returned shape under a given
\* utilization factor.
ReturnedWasteMonthlyUnder(uf) ==
    compute_cost(node, workload, CandidatePacking(ReturnedShape), uf)
        .waste_cost_monthly_usd

\* C13: the candidate's waste_cost_monthly is computed by the cost model
\* under the caller's utilization_factor, the factor that produced
\* current_cost, so that savings compares the two on the same scale.
C13_CandidateCostUnderCallersFactor ==
    Returned =>
        recommendation.waste_cost_monthly_usd
            = ReturnedWasteMonthlyUnder(utilization_factor)

\* C13, what the code does: the candidate is costed at full utilization.
C13_CandidateCostAtFullUtilization ==
    Returned =>
        recommendation.waste_cost_monthly_usd = ReturnedWasteMonthlyUnder(None)

\* C14: savings_vs_current_monthly_usd of a returned RecommendedConfig is
\* current_cost.waste_cost_monthly_usd minus the winning candidate's
\* waste_cost_monthly_usd, unclamped: zero and negative values are returned.
C14_SavingsIsDifferenceUnclamped ==
    Returned =>
        recommendation.savings_vs_current_monthly_usd
            = cost.waste_cost_monthly_usd
                  - recommendation.waste_cost_monthly_usd

\* C14 witness: negative savings are returned as they are.
C14_Witness ==
    Returned /\ recommendation.savings_vs_current_monthly_usd < 0

\* C14, zero savings with waste to pay for on both sides.
C14_WitnessZero ==
    /\ Returned
    /\ recommendation.savings_vs_current_monthly_usd = 0
    /\ cost.waste_cost_monthly_usd > 0

\* C15: executors_per_node, waste and efficiency_score of a returned
\* RecommendedConfig are those compute_packing gives for the winning shape
\* on the same node and reserves: the executors_per_node recomputed at
\* output equals the one the search applied the guardrails to.
C15_ReportedPackingIsComputePacking ==
    Returned =>
        /\ recommendation.executors_per_node
               = CandidatePacking(ReturnedShape).executors_per_node
        /\ recommendation.waste = CandidatePacking(ReturnedShape).waste
        /\ recommendation.efficiency_score
               = CandidatePacking(ReturnedShape).efficiency_score

\* C15 witness: a winner placed several times on a node, with waste that
\* the score alone does not determine.
C15_Witness ==
    /\ Returned
    /\ recommendation.executors_per_node > 1

C15_WitnessFractionalWaste ==
    /\ Returned
    /\ assumptions.reserve_memory_gb > 0
    /\ recommendation.waste % (RatioScale \div ScoreScale) # 0

(***************************************************************************)
(* Properties of compute_forecast (checked under SpecForecast).            *)
(***************************************************************************)
ReturnedForecasts == {forecast.returned[i] : i \in 1..Len(forecast.returned)}

\* C16: for months >= 1 compute_forecast returns exactly `months` entries
\* whose month fields are 1, 2, ..., months in increasing order, and a
\* repeated call with the same arguments returns the same sequence.
C16_MonthsEntriesInOrderRepeatable ==
    pc \in {"start", "forecast_done"} =>
        /\ \A r \in ReturnedForecasts :
               /\ Len(r) = forecast.months
               /\ \A i \in 1..Len(r) : r[i].month = i
        /\ \A r1, r2 \in ReturnedForecasts : r1 = r2

\* C16 witness: two calls have returned a forecast of more than two months
\* that grows from month to month.
C16_Witness ==
    /\ pc = "forecast_done"
    /\ Len(forecast.returned) >= 2
    /\ forecast.months > 2
    /\ forecast.returned[1][1].current_usd
           < forecast.returned[1][2].current_usd

\* The claimed monthly factor 1 + g, g = (growth_rate_pct / 100) / 12, and
\* g = 0 when growth_rate_pct is absent.
ClaimedFactor ==
    IF forecast.growth_rate_pct.some
    THEN Reduce(Frac(1200 + forecast.growth_rate_pct.v, 1200))
    ELSE Frac(1, 1)

\* base x factor^(k - 1): the value of month k.
RECURSIVE Compounded(_, _, _)
Compounded(base, factor, k) ==
    IF k <= 1 THEN Frac(base, 1)
    ELSE FracMul(Compounded(base, factor, k - 1), factor)

ExactCurrent(k) == Compounded(forecast.cost_current_monthly, ClaimedFactor, k)
ExactRecommended(k) ==
    Compounded(forecast.cost_recommended_monthly, ClaimedFactor, k)

\* C17: month 1 carries the base values and each later month multiplies the
\* current and the recommended value of the previous month by 1 + g, with
\* g = (growth_rate_pct / 100) / 12 and g = 0 when the rate is absent; with
\* the rate absent or 0 every month shows the starting values.  (The entries
\* show the running values rounded to cents.)
C17_CompoundsMonthlyGrowth ==
    \A r \in ReturnedForecasts :
        \A k \in 1..Len(r) :
            /\ r[k].current_usd = Round2(ExactCurrent(k))
            /\ r[k].recommended_usd = Round2(ExactRecommended(k))
            /\ (~forecast.growth_rate_pct.some \/ forecast.growth_rate_pct.v = 0)
                   => /\ r[k].current_usd = forecast.cost_current_monthly
                      /\ r[k].recommended_usd
                             = forecast.cost_recommended_monthly

\* C17 witness: a returned forecast whose third month has grown twice.
C17_Witness ==
    /\ pc = "forecast_done"
    /\ forecast.growth_rate_pct.some /\ forecast.growth_rate_pct.v > 0
    /\ forecast.months >= 3
    /\ forecast.returned[1][3].current_usd > forecast.returned[1][2].current_usd
    /\ forecast.returned[1][2].current_usd > forecast.returned[1][1].current_usd

\* C17, the flat cases: no rate and a rate of 0, and a negative rate.
C17_WitnessNoGrowth ==
    /\ pc = "forecast_done"
    /\ ~forecast.growth_rate_pct.some
    /\ forecast.months >= 3
    /\ forecast.cost_current_monthly > 0

C17_WitnessShrinks ==
    /\ pc = "forecast_done"
    /\ forecast.months >= 2
    /\ forecast.returned[1][2].current_usd < forecast.returned[1][1].current_usd

\* C18 as stated: in every entry savings_usd equals that entry's current_usd
\* minus its recommended_usd.
C18_SavingsIsDifferenceOfFields ==
    \A r \in ReturnedForecasts :
        \A k \in 1..Len(r) :
            r[k].savings_usd = r[k].current_usd - r[k].recommended_usd

\* C18 amended: savings_usd is the difference of the running current and
\* recommended values before they are rounded, rounded to cents; it is
\* within one cent of the difference of the entry's rounded fields, and
\* equal to it when nothing grows.
C18_SavingsIsRoundedDifference ==
    \A r \in ReturnedForecasts :
        \A k \in 1..Len(r) :
            /\ r[k].savings_usd
                   = Round2(FracSub(ExactCurrent(k), ExactRecommended(k)))
            /\ Abs(r[k].savings_usd
                       - (r[k].current_usd - r[k].recommended_usd)) <= 1
            /\ (k = 1 \/ ~forecast.growth_rate_pct.some
                      \/ forecast.growth_rate_pct.v = 0)
                   => r[k].savings_usd
                          = r[k].current_usd - r[k].recommended_usd

\* C18 witness: an entry whose savings is not the difference of its fields.
C18_Witness ==
    /\ pc = "forecast_done"
    /\ \E k \in 1..forecast.months :
           forecast.returned[1][k].savings_usd
               # forecast.returned[1][k].current_usd
                     - forecast.returned[1][k].recommended_usd

(***************************************************************************)
(* Properties of _risk_notes (checked under SpecRisk).                     *)
(***************************************************************************)
Noted == pc = "noted"
Notes == {risk[i] : i \in 1..Len(risk)}

\* T = node.count x executors_per_node x executor.cores
TotalExecutorCores == node.count * packing.executors_per_node * executor.cores
TotalExecutors == node.count * packing.executors_per_node

\* C19 as stated: with partition_count present, the under-parallelized note
\* is emitted exactly when partition_count > 4 x T, the underutilized-cores
\* note exactly when T > 4 x partition_count, and never both.
C19_PartitionNotesByThreshold ==
    Noted /\ workload.partition_count.some =>
        /\ "under_parallelized" \in Notes
               <=> workload.partition_count.v > 4 * TotalExecutorCores
        /\ "underutilized_cores" \in Notes
               <=> TotalExecutorCores > 4 * workload.partition_count.v
        /\ ~("under_parallelized" \in Notes /\ "underutilized_cores" \in Notes)

\* C19 amended: the same, for a packing that places at least one executor
\* (T > 0); when no executor fits, neither note is emitted.
C19_PartitionNotesWhenExecutorsFit ==
    Noted /\ workload.partition_count.some =>
        /\ "under_parallelized" \in Notes
               <=> /\ packing.executors_per_node > 0
                   /\ workload.partition_count.v > 4 * TotalExecutorCores
        /\ "underutilized_cores" \in Notes
               <=> /\ packing.executors_per_node > 0
                   /\ TotalExecutorCores > 4 * workload.partition_count.v
        /\ ~("under_parallelized" \in Notes /\ "underutilized_cores" \in Notes)

\* C19 witness: no executor fits, the partition count exceeds 4 x T = 0, and
\* no note about partitions is emitted.
C19_Witness ==
    /\ Noted
    /\ workload.partition_count.some
    /\ packing.executors_per_node = 0
    /\ workload.partition_count.v > 4 * TotalExecutorCores
    /\ "under_parallelized" \notin Notes

\* C19, the thresholds: one partition more than 4 x T gives the
\* under-parallelized note, 4 x partition_count = T gives none.
C19_WitnessUnderParallelized ==
    /\ Noted
    /\ workload.partition_count.some
    /\ TotalExecutorCores > 0
    /\ workload.partition_count.v = 4 * TotalExecutorCores + 1
    /\ "under_parallelized" \in Notes

C19_WitnessUnderutilized ==
    /\ Noted
    /\ workload.partition_count.some
    /\ "underutilized_cores" \in Notes

C19_WitnessAtThreshold ==
    /\ Noted
    /\ workload.partition_count.some
    /\ TotalExecutorCores = 4 * workload.partition_count.v
    /\ "underutilized_cores" \notin Notes
    /\ "under_parallelized" \notin Notes

\* The place of a note's rule in the fixed rule order.
RuleOf(note) ==
    CASE note = "low_executor_memory" -> 1
      [] note = "high_executors_per_node" -> 2
      [] note \in {"under_parallelized", "underutilized_cores"} -> 3
      [] note = "input_data_spill" -> 4
      [] note = "concurrent_jobs" -> 5
      [] note = "peak_memory" -> 6
      [] note = "shuffle_pressure" -> 7
      [] note = "data_skew" -> 8
      [] note = "spot_share" -> 9

\* Each rule's condition, on that rule's own inputs.
RuleFires(rule) ==
    CASE rule = 1 -> executor.memory_gb < 6 * MemScale
      [] rule = 2 -> packing.executors_per_node > 10
      [] rule = 3 ->
            /\ workload.partition_count.some
            /\ packing.executors_per_node > 0
            /\ \/ workload.partition_count.v > 4 * TotalExecutorCores
               \/ TotalExecutorCores > 4 * workload.partition_count.v
      [] rule = 4 ->
            /\ workload.input_data_gb.some
            /\ TotalExecutors > 0
            /\ workload.input_data_gb.v * 2 * MemScale
                   > executor.memory_gb * TotalExecutors
      [] rule = 5 ->
            /\ workload.concurrent_jobs.some
            /\ workload.concurrent_jobs.v > 1
            /\ (~utilization_factor.some \/ utilization_factor.v >= UtilScale)
      [] rule = 6 ->
            /\ workload.peak_executor_memory_gb.some
            /\ 10 * workload.peak_executor_memory_gb.v >= 9 * executor.memory_gb
      [] rule = 7 ->
            /\ TotalExecutors > 0
            /\ (OrZero(workload.shuffle_read_mb)
                    + OrZero(workload.shuffle_write_mb)) * 4 * MemScale
                   > 1024 * executor.memory_gb * TotalExecutors
      [] rule = 8 -> workload.data_skew = Some("high")
      [] rule = 9 -> workload.spot_pct.some /\ workload.spot_pct.v > 50

\* C20: the notes appear in the fixed rule order (low executor memory, high
\* executors per node, partition/parallelism, input-data spill, concurrent
\* jobs, peak memory, shuffle pressure, data skew, spot share), each rule
\* contributes at most one note, and a rule's note appears exactly when that
\* rule's own condition holds, whatever the other rules did.
C20_OrderStableIndependentRules ==
    Noted =>
        /\ \A i, j \in 1..Len(risk) :
               i < j => RuleOf(risk[i]) < RuleOf(risk[j])
        /\ \A rule \in 1..9 :
               (\E note \in Notes : RuleOf(note) = rule) <=> RuleFires(rule)

\* C20 witness: every rule fires, nine notes are returned.
C20_Witness == Noted /\ Len(risk) = 9

\* C20, one rule alone: only the last rule fires.
C20_WitnessOnlySpot == Noted /\ risk = <<"spot_share">>

AllOptionalAbsent ==
    /\ ~workload.partition_count.some
    /\ ~workload.input_data_gb.some
    /\ ~workload.concurrent_jobs.some
    /\ ~workload.peak_executor_memory_gb.some
    /\ ~workload.shuffle_read_mb.some
    /\ ~workload.shuffle_write_mb.some
    /\ ~workload.data_skew.some
    /\ ~workload.spot_pct.some

\* C21: risk_notes returns normally on every request, also when the packing
\* has executors_per_node = 0 (no division by zero), and when every optional
\* workload field is absent only the low-executor-memory and the
\* high-executors-per-node notes can appear.
C21_AbsentFieldsSuppressRulesWithoutError ==
    /\ pc # "raised"
    /\ Noted /\ AllOptionalAbsent =>
           Notes \subseteq {"low_executor_memory", "high_executors_per_node"}

\* C21 witness: no executor fits, input data and shuffle volume are given,
\* and risk_notes has returned.
C21_Witness ==
    /\ Noted
    /\ packing.executors_per_node = 0
    /\ workload.input_data_gb.some
    /\ workload.shuffle_read_mb.some

\* C21, all optional fields absent: both remaining notes are returned.
C21_WitnessAllAbsent ==
    /\ Noted
    /\ AllOptionalAbsent
    /\ risk = <<"low_executor_memory", "high_executors_per_node">>

(***************************************************************************)
(* Properties of the analyze cache (checked under SpecCache).              *)
(***************************************************************************)
Answered(t) == threads[t].pc = "idle" /\ threads[t].served > 0

\* What _do_analyze computes freshly for each request, and the response the
\* endpoint makes of it.
FreshAnalyze == [request \in CacheRequests |-> do_analyze(request)]
FreshResponse(request) == [status |-> 200, body |-> FreshAnalyze[request]]

C30_CacheSizeBounded == Cardinality(DOMAIN _analyze_cache) <= _CACHE_MAX_SIZE

(***************************************************************************)
(* Properties of the report authentication and of the startup check        *)
(* (checked under SpecAuth).                                               *)
(***************************************************************************)
ReportAnswered == pc = "answered"

\* The keys a request carries: the X-API-Key header and the Bearer
\* credentials, without surrounding whitespace.
CarriedKeys ==
    (IF threads.x_api_key.some THEN {Strip(threads.x_api_key.v)} ELSE {})
    \cup (IF /\ threads.authorization.some
             /\ threads.authorization.v.scheme = "Bearer "
          THEN {Strip(threads.authorization.v.credentials)} ELSE {})

\* The configured API key: ICEA_API_KEY, else ICEA_API_KEYS.
ConfiguredKeys ==
    IF environ.ICEA_API_KEY.some /\ environ.ICEA_API_KEY.v # Str("")
    THEN {environ.ICEA_API_KEY.v}
    ELSE IF environ.ICEA_API_KEYS.some
    THEN {Strip(environ.ICEA_API_KEYS.v)} \ {Str("")}
    ELSE {}

\* C23: POST /v1/report generates a report only if demo mode is enabled or
\* the request carries a key equal to the configured API key; in every other
\* case, also when no key is configured, the answer is 401 and no report is
\* generated.
C23_ReportOnlyInDemoOrWithKey ==
    ReportAnswered =>
        LET allowed == threads.demo \/ (CarriedKeys \cap ConfiguredKeys # {})
        IN  /\ threads.generated => allowed
            /\ ~allowed =>
                   /\ ~threads.generated
                   /\ responses[Len(responses)].status = 401

\* C23 witness: no demo mode and a report generated for the configured key
\* sent as Bearer credentials.
C23_Witness ==
    /\ ReportAnswered
    /\ ~threads.demo
    /\ threads.generated
    /\ ~threads.x_api_key.some
    /\ responses[Len(responses)].status = 200

\* C23, no key configured: 401 although the request carries keys.
C23_WitnessNoKeyConfigured ==
    /\ ReportAnswered
    /\ ~threads.demo
    /\ ConfiguredKeys = {}
    /\ CarriedKeys # {}
    /\ responses[Len(responses)].status = 401

\* ICEA_ENV or NODE_ENV is production or prod.
MarksProduction(x) ==
    x.some /\ Lower(Strip(x.v)) \in {Str("production"), Str("prod")}
EitherMarksProduction ==
    MarksProduction(environ.ICEA_ENV) \/ MarksProduction(environ.NODE_ENV)

\* C28: _is_demo_enabled is never true when ICEA_ENV or NODE_ENV is
\* production (or prod), whatever the other variable and ICEA_DEMO are, so
\* no report is generated through demo mode then.
C28_NoDemoWhenEitherMarksProduction ==
    ReportAnswered /\ EitherMarksProduction => ~threads.demo

\* C28, the part that holds: ICEA_ENV marking production disables demo.
C28_NoDemoWhenIceaEnvMarksProduction ==
    ReportAnswered /\ MarksProduction(environ.ICEA_ENV) => ~threads.demo

\* ICEA_DEMO has an enabling value.
DemoValueEnabling ==
    /\ environ.ICEA_DEMO.some
    /\ Lower(Strip(environ.ICEA_DEMO.v)) \in {Str("1"), Str("true"), Str("yes")}

\* C29: after the startup check, with ICEA_DEMO enabling and a production
\* environment, a critical record is logged, and with
\* ICEA_DEMO_FAIL_IN_PROD = 1 the startup is aborted.
C29_StartupCheckLogsAndAborts ==
    pc # "starting" /\ DemoValueEnabling /\ EitherMarksProduction =>
        /\ \E i \in 1..Len(log) : log[i].level = "CRITICAL"
        /\ environ.ICEA_DEMO_FAIL_IN_PROD = Some(Str("1")) => pc = "aborted"

\* C29, what the code does: nothing is ever logged and no startup aborts.
C29_StartupCheckNeverFires == log = <<>> /\ pc # "aborted"

(***************************************************************************)
(* Properties of the pending-report store and of /v1/report-paid.          *)
(***************************************************************************)
\* The consume_pending_report calls for the token that returned the stored
\* request: the caller holds it, or has answered with the PDF or with 504.
ConsumersHolding(token) ==
    {t \in Workers : threads[t].pc = "consumed" /\ threads[t].token = token}

ConsumersAnswered(token) ==
    {i \in 1..Len(responses) :
        /\ responses[i].route = "paid_pdf"
        /\ responses[i].token = token
        /\ responses[i].status \in {200, 504}}

SuccessfulConsumes(token) ==
    Cardinality(ConsumersHolding(token)) + Cardinality(ConsumersAnswered(token))

\* Thread t returns from get_pending_report or consume_pending_report in
\* this step.
StoreCallReturns(t) ==
    /\ threads[t].pc \in {"acquire", "selected"}
    /\ threads'[t].pc \in {"idle", "consumed"}

\* What the call of thread t returned: the handler holds the request, or
\* has answered with it, or has answered 404 for None.
StoreCallResult(t) ==
    IF threads'[t].pc = "consumed" THEN threads'[t].result
    ELSE responses'[Len(responses')].body

\* C24: a token is one-time.  For every token, at most one
\* consume_pending_report call returns the stored request, whatever the
\* interleaving of the calls; once a consume has returned it, the token is
\* not in pending_reports, and every get_pending_report or
\* consume_pending_report call for it that returns afterwards returns None.
C24_TokenIsOneTime ==
    [][\A token \in Tokens :
          /\ SuccessfulConsumes(token)' <= 1
          /\ SuccessfulConsumes(token) >= 1
                => /\ token \notin DOMAIN pending_reports'
                   /\ \A t \in Workers :
                         StoreCallReturns(t) /\ threads[t].token = token
                             => StoreCallResult(t) = None]_vars

\* A consume call for a token returned its request, and a later consume
\* call for the same token returned None.
C24_Witness ==
    \E i, j \in 1..Len(responses) :
        /\ i < j
        /\ responses[i].route = "paid_pdf" /\ responses[i].status = 200
        /\ responses[j].route = "paid_pdf" /\ responses[j].status = 404
        /\ responses[j].token = responses[i].token
        /\ responses[i].request_id < responses[j].request_id

\* A consume call for a token returned its request, and a later view of the
\* same token, still unexpired by the clock, returned None.
C24_WitnessViewAfterConsume ==
    \E i, j \in 1..Len(responses) :
        /\ i < j
        /\ responses[i].route = "paid_pdf" /\ responses[i].status = 200
        /\ responses[j].route \in {"paid_html", "report_html"}
        /\ responses[j].status = 404
        /\ responses[j].token = responses[i].token
        /\ clock = 0

\* Two consume calls for the same token wait for, or hold, the lock at once.
C24_WitnessConcurrent ==
    /\ threads[1].route = "paid_pdf" /\ threads[2].route = "paid_pdf"
    /\ threads[1].token = threads[2].token
    /\ threads[1].token \in DOMAIN pending_reports
    /\ threads[1].pc = "selected" /\ threads[2].pc = "acquire"

\* The token is in the table and time.time() - created_at <= _EXPIRY_SECONDS.
Unexpired(token) ==
    /\ token \in DOMAIN pending_reports
    /\ ~Expired(pending_reports[token].created_at, clock)

\* C25: viewing does not consume.  A get_pending_report call for a token
\* that is in pending_reports and unexpired returns the request stored for
\* it and leaves pending_reports unchanged, and a step that removes an
\* unexpired token from pending_reports is the consume of a /v1/report-paid
\* request with format=pdf for that token.
C25_ViewingDoesNotConsume ==
    [][\A token \in Tokens :
          Unexpired(token) =>
              /\ \A t \in Workers :
                    /\ threads[t].route \in {"paid_html", "report_html"}
                    /\ threads[t].token = token
                    /\ StoreCallReturns(t)
                    => /\ StoreCallResult(t) =
                              Some(JsonLoads(pending_reports[token].request_json))
                       /\ pending_reports' = pending_reports
              /\ token \notin DOMAIN pending_reports'
                    => \E t \in Workers :
                          /\ threads[t].route = "paid_pdf"
                          /\ threads[t].token = token
                          /\ StoreCallReturns(t)]_vars

\* The same token was viewed twice, once by each HTML route, both views
\* returned the same request, and the token is still in the table.
C25_Witness ==
    \E i, j \in 1..Len(responses) :
        /\ i < j
        /\ responses[i].route = "paid_html" /\ responses[i].status = 200
        /\ responses[j].route = "report_html" /\ responses[j].status = 200
        /\ responses[i].body = responses[j].body
        /\ responses[j].token = responses[i].token
        /\ Unexpired(responses[i].token)

\* A token was viewed and then removed by a format=pdf request.
C25_WitnessThenConsumed ==
    \E i, j \in 1..Len(responses) :
        /\ i < j
        /\ responses[i].route \in {"paid_html", "report_html"}
        /\ responses[i].status = 200
        /\ responses[j].route = "paid_pdf" /\ responses[j].status = 200
        /\ responses[j].token = responses[i].token
        /\ responses[i].token \notin DOMAIN pending_reports

\* C26: every report_audit row corresponds to a PDF response returned: no
\* audit row exists for a /v1/report-paid request that ended with 404 or
\* with 504.
C26_AuditRowMeansPdfDelivered ==
    \A i \in 1..Len(responses) :
        responses[i].route = "paid_pdf" /\ responses[i].status \in {404, 504}
            => \A a \in 1..Len(report_audit) :
                   report_audit[a].request_id # responses[i].request_id

\* The part of C26 that holds: no audit row for a request that ended 404.
C26_NoAuditRowFor404 ==
    \A i \in 1..Len(responses) :
        responses[i].route = "paid_pdf" /\ responses[i].status = 404
            => \A a \in 1..Len(report_audit) :
                   report_audit[a].request_id # responses[i].request_id

\* A format=pdf request ended with 504 and an audit row carries its id.
C26_WitnessAuditRowFor504 ==
    \E i \in 1..Len(responses), a \in 1..Len(report_audit) :
        /\ responses[i].route = "paid_pdf" /\ responses[i].status = 504
        /\ report_audit[a].request_id = responses[i].request_id
        /\ report_audit[a].token_preview = responses[i].token

(***************************************************************************)
(* Properties of RateLimitMiddleware (checked under SpecRate).             *)
(***************************************************************************)
\* The requests of the client to rate-limited paths that were passed on to
\* the application at a time in [from, from + _RATE_LIMIT_WINDOW_SEC).
PassedInInterval(ip, from) ==
    {i \in 1..Len(responses) :
        /\ responses[i].ip = ip
        /\ IsRateLimitedPath(responses[i].path)
        /\ ~IsHealthPath(responses[i].path)
        /\ responses[i].status # 429
        /\ responses[i].time >= from
        /\ responses[i].time < from + _RATE_LIMIT_WINDOW_SEC}

\* C27: the rate limiter is a per-IP sliding window.  For every client and
\* every interval of _RATE_LIMIT_WINDOW_SEC seconds, at most
\* _RATE_LIMIT_REQUESTS requests to rate-limited paths are passed on; a 429
\* answer carries Retry-After; /v1/health is never answered 429.
C27_SlidingWindowLimit ==
    /\ \A ip \in ClientIps, from \in FirstRequestTime..LastRequestTime :
          Cardinality(PassedInInterval(ip, from)) <= _RATE_LIMIT_REQUESTS
    /\ \A i \in 1..Len(responses) :
          /\ responses[i].status = 429
                => responses[i].retry_after = Some(_RATE_LIMIT_WINDOW_SEC)
          /\ IsHealthPath(responses[i].path) => responses[i].status # 429

\* More requests of one client than _RATE_LIMIT_REQUESTS were passed on
\* within one interval of _RATE_LIMIT_WINDOW_SEC seconds.
C27_WitnessBurstAcrossWindows ==
    \E ip \in ClientIps, from \in FirstRequestTime..LastRequestTime :
        Cardinality(PassedInInterval(ip, from)) > _RATE_LIMIT_REQUESTS

\* What holds of the limiter: within the fixed window that starts at
\* _store[ip].start, at most _RATE_LIMIT_REQUESTS requests are passed on; a
\* 429 answer carries Retry-After; health and other paths are never limited.
C27_FixedWindowLimit ==
    /\ \A ip \in DOMAIN _store :
          /\ _store[ip].count <= _RATE_LIMIT_REQUESTS
          /\ Cardinality(PassedInInterval(ip, _store[ip].start))
                 = _store[ip].count
    /\ \A i \in 1..Len(responses) :
          /\ responses[i].status = 429
                => /\ responses[i].retry_after = Some(_RATE_LIMIT_WINDOW_SEC)
                   /\ IsRateLimitedPath(responses[i].path)
          /\ IsHealthPath(responses[i].path) => responses[i].status # 429

\* A request was answered 429.
C27_WitnessLimited ==
    \E i \in 1..Len(responses) : responses[i].status = 429

=============================================================================
